---- MODULE Spec2Model ----
(***************************************************************************)
(* A model of the MiniMark generational garbage collector                  *)
(* (pypy/rpython/memory/gc/minimark.py): the nursery allocator, the write  *)
(* barrier and remembered sets, the minor collector and the major          *)
(* collector with finalizers.                                              *)
(*                                                                         *)
(* Addresses are integers (bytes).  The nursery is the contiguous range    *)
(* [nursery, nursery + nursery_size + extra); every block handed out by    *)
(* the ArenaCollection or by raw malloc is named by one integer of         *)
(* 1..MaxOld; prebuilt objects live at PrebuiltBase + k.  An object is     *)
(* addressed by the address of its header.                                 *)
(*                                                                         *)
(* The collector is configured as MiniMarkGC.__init__ allows, with the     *)
(* keyword parameters instantiated to small values that satisfy the same   *)
(* constraints as the defaults.                                            *)
(***************************************************************************)
EXTENDS Integers, Sequences, FiniteSets, TLC

\* ------------------------------------------------------------------------
\* Bounds of the model
\* ------------------------------------------------------------------------
MaxOld == 5          \* number of blocks the arena / raw malloc can hand out
NumRoots == 2        \* number of stack roots of the mutator
MaxAllocs == 6       \* number of malloc calls in one behaviour
MaxStores == 2       \* number of field stores in one behaviour
WideAllocs == 4      \* number of malloc calls when every kind of request is made
MinorAllocs == 3     \* number of malloc calls in the runs with minor collections
BarrierAllocs == 2   \* number of malloc calls in the runs with prebuilt objects
MajorAllocs == 3     \* number of malloc calls in the runs with major collections
WeakAllocs == 3      \* number of malloc calls in the runs with weak references
HeapAllocs == 4      \* number of malloc calls in the runs with a heap limit
CardAllocs == 2      \* number of malloc calls in the runs with assume_young_pointers
CopyAllocs == 2      \* number of malloc calls in the runs with writebarrier_before_copy
NumRegs == 4         \* number of registers of a bank of an MIFrame, constants aside
MaxFailures == 2     \* number of guard failures in one behaviour
SmallTraceLimit == 3 \* a trace limit that the traced programs exceed
LargeTraceLimit == 12 \* a trace limit that most traces stay within
MaxCount == 4        \* largest number of iterations of the traced loop

\* ------------------------------------------------------------------------
\* Configuration (MiniMarkGC.__init__ keyword parameters) and layout
\* ------------------------------------------------------------------------
WORD == 4
LONG_BIT == 8 * WORD
LONG_BIT_SHIFT == 5
NULL == 0

nursery_size == 4 * WORD
small_request_threshold == 2 * WORD
major_collection_threshold == 2
growth_rate_max == 2
card_page_indices == 2
card_page_shift == 1
large_object == 3 * WORD
large_object_gcptrs == 4 * WORD
nonlarge_max == large_object - 1
nonlarge_gcptrs_max == large_object_gcptrs - 1

size_gc_header == WORD
minimal_size_in_nursery == size_gc_header + WORD

nursery == 1000
nursery_top == nursery + nursery_size
PrebuiltBase == 500
NumPrebuilt == 2

\* Flags of the header word
GCFLAG_NO_YOUNG_PTRS == "NO_YOUNG_PTRS"
GCFLAG_NO_HEAP_PTRS == "NO_HEAP_PTRS"
GCFLAG_VISITED == "VISITED"
GCFLAG_HAS_SHADOW == "HAS_SHADOW"
GCFLAG_FINALIZATION_ORDERING == "FINALIZATION_ORDERING"
GCFLAG_HAS_CARDS == "HAS_CARDS"
GCFLAG_CARDS_SET == "CARDS_SET"
AllFlags == {GCFLAG_NO_YOUNG_PTRS, GCFLAG_NO_HEAP_PTRS, GCFLAG_VISITED,
             GCFLAG_HAS_SHADOW, GCFLAG_FINALIZATION_ORDERING,
             GCFLAG_HAS_CARDS, GCFLAG_CARDS_SET}
\* The header value written over an evacuated nursery object: all flag bits.
FORWARDED == -42

\* ------------------------------------------------------------------------
\* The type table the collector queries (typeid -> layout).
\*   T_S  a struct with one GC pointer
\*   T_F  the same struct with a finalizer
\*   T_A  an array of GC pointers (length word + items of one word)
\*   T_B  a struct with one GC pointer and one more word: a "large" object
\*   T_V  an array of bytes (length word + items of one byte)
\*   T_W  a weak reference: one weak pointer, no GC pointer
\* ------------------------------------------------------------------------
T_S == 1
T_F == 2
T_A == 3
T_B == 4
T_V == 5
T_W == 6
FixedTypes == {T_S, T_F, T_B, T_W}
VarTypes == {T_A, T_V}

fixed_size(typeid) == IF typeid = T_B THEN 2 * WORD ELSE WORD
is_varsize(typeid) == typeid \in VarTypes
varsize_item_sizes(typeid) == IF typeid = T_A THEN WORD ELSE IF typeid = T_V THEN 1 ELSE 0
has_gcptr_in_varsize(typeid) == typeid = T_A
getfinalizer(typeid) == typeid = T_F
contains_weakptr(typeid) == typeid = T_W
\* the number of GC pointers in the fixed part
fixed_gcptrs(typeid) == IF typeid \in {T_S, T_F, T_B} THEN 1 ELSE 0

round_up_for_allocation(size) == ((size + WORD - 1) \div WORD) * WORD

\* ------------------------------------------------------------------------
\* Small helpers on functions and sequences
\* ------------------------------------------------------------------------
Upd(f, a, v) == [x \in (DOMAIN f) \cup {a} |-> IF x = a THEN v ELSE f[x]]
Rem(f, S) == [x \in (DOMAIN f) \ S |-> f[x]]
Top(s) == s[Len(s)]
Pop(s) == SubSeq(s, 1, Len(s) - 1)
Range(s) == {s[i] : i \in DOMAIN s}
Zeros(n) == [i \in 1..n |-> NULL]
Max(a, b) == IF a > b THEN a ELSE b
Min(a, b) == IF a < b THEN a ELSE b

\* ------------------------------------------------------------------------
\* The state
\* ------------------------------------------------------------------------
VARIABLES
    mem,                            \* address -> object (header and fields)
    roots,                          \* the stack roots seen by the root walker
    nursery_free,
    old_objects_pointing_to_young,
    old_objects_with_cards_set,
    prebuilt_root_objects,
    rawmalloced_objects,
    rawmalloced_total_size,
    ac_all_objects,                 \* the ArenaCollection: <<address, nsize>>
    ac_total_memory_used,
    objects_with_finalizers,
    run_finalizers,
    young_objects_with_weakrefs,
    old_objects_with_weakrefs,
    young_objects_shadows,          \* nursery object -> its shadow
    next_major_collection_threshold,
    min_heap_size,
    max_heap_size,
    max_heap_size_already_raised,
    finalizer_lock_count,
    debug_always_do_minor_collect,
    errors,                         \* the ll_asserts that have failed
    pc,                             \* where the mutator / the collector stands
    cont,                           \* the operation interrupted by finalizers
    req,                            \* the allocation that overflowed the nursery
    finalizing,                     \* the object whose finalizer is running
    last,                           \* the last operation and its arguments
    forw,                           \* forwarding addresses of the last minor collection
    recovered,                      \* a major collection has ended within max_heap_size
                                    \* since MemoryError was raised
    arena_sizes,                    \* raw-malloced block -> the size arena_malloc was asked for
    fixedsize0,                     \* what the type table gives as fixed size for the
                                    \* invalid type id 0
    allocs,                         \* number of malloc calls still to come
    stores                          \* number of field stores still to come

\* The meta-interpreter (MetaInterp and its MIFrames)
VARIABLES
    framestack,                     \* the MIFrames, the running one last
    free_frames_list,               \* popped MIFrames kept for reuse
    history,                        \* history.operations: the trace
    in_recursion,
    resumekey,                      \* the descr tracing started from: a guard of a
                                    \* trace, or ResumeFromInterpDescr (trace 0)
    compiled,                       \* the traces handed to the backend
    nboxes,                         \* number of Box objects created so far
    mode,                           \* "off", "tracing" or "done"
    jlast,                          \* the last step of the meta-interpreter
    failures,                       \* number of guard failures still to come
    staticdata,                     \* portal_code, num_green_args, result_type and
                                    \* the trace_limit of the warm state
    current_merge_points,           \* <<live_arg_boxes, start>> of the merge points seen
    seen_can_enter_jit,
    running,                        \* place in the framestack of the frame that
                                    \* run_one_step is running ('self')
    nframes,                        \* number of MIFrame objects created so far
    last_exc_value_box

\* The virtual references (VirtualRefInfo and the MetaInterp's list)
VARIABLES
    vrefs,                          \* the JIT_VIRTUAL_REF structures: jit_frame, forced
                                    \* (and the virtual the vref stands for)
    virtualref_boxes,               \* MetaInterp.virtualref_boxes: virtual box, vref box, ...
    rescall,                        \* a residual call is running
    vlast                           \* the last step on a virtual ref

gcvars == <<mem, roots, nursery_free, old_objects_pointing_to_young,
            old_objects_with_cards_set, prebuilt_root_objects,
            rawmalloced_objects, rawmalloced_total_size, ac_all_objects,
            ac_total_memory_used, objects_with_finalizers, run_finalizers,
            young_objects_with_weakrefs, old_objects_with_weakrefs,
            young_objects_shadows, next_major_collection_threshold,
            min_heap_size, max_heap_size, max_heap_size_already_raised,
            finalizer_lock_count,
            debug_always_do_minor_collect, errors, forw, recovered,
            arena_sizes, fixedsize0>>
jitvars == <<framestack, free_frames_list, history, in_recursion, resumekey,
             compiled, nboxes, mode, jlast, failures, staticdata,
             current_merge_points, seen_can_enter_jit, running, nframes,
             last_exc_value_box, vrefs, virtualref_boxes, rescall, vlast>>
vars == <<gcvars, pc, cont, req, finalizing, last, allocs, stores, jitvars>>

\* The collector's fields as one record, for the operators below.
St == [mem |-> mem, roots |-> roots, nursery_free |-> nursery_free,
       old_objects_pointing_to_young |-> old_objects_pointing_to_young,
       old_objects_with_cards_set |-> old_objects_with_cards_set,
       prebuilt_root_objects |-> prebuilt_root_objects,
       rawmalloced_objects |-> rawmalloced_objects,
       rawmalloced_total_size |-> rawmalloced_total_size,
       ac_all_objects |-> ac_all_objects,
       ac_total_memory_used |-> ac_total_memory_used,
       objects_with_finalizers |-> objects_with_finalizers,
       run_finalizers |-> run_finalizers,
       young_objects_with_weakrefs |-> young_objects_with_weakrefs,
       old_objects_with_weakrefs |-> old_objects_with_weakrefs,
       young_objects_shadows |-> young_objects_shadows,
       next_major_collection_threshold |-> next_major_collection_threshold,
       min_heap_size |-> min_heap_size, max_heap_size |-> max_heap_size,
       max_heap_size_already_raised |-> max_heap_size_already_raised,
       finalizer_lock_count |-> finalizer_lock_count,
       debug_always_do_minor_collect |-> debug_always_do_minor_collect,
       errors |-> errors, forw |-> forw, recovered |-> recovered,
       arena_sizes |-> arena_sizes, fixedsize0 |-> fixedsize0,
       \* locals of the running operation
       objects_to_trace |-> <<>>, new_with_finalizer |-> <<>>, marked |-> <<>>,
       result |-> NULL, bounded |-> FALSE, oom |-> FALSE, raised |-> FALSE,
       fatal |-> FALSE, susp |-> FALSE, finobj |-> NULL,
       \* what the running operation did, for the properties
       log |-> <<>>, used |-> 0, thr |-> 0, freem |-> 0, freed |-> {},
       shadowed |-> {}, partial |-> {}]

Commit(g) ==
    /\ mem' = g.mem
    /\ roots' = g.roots
    /\ nursery_free' = g.nursery_free
    /\ old_objects_pointing_to_young' = g.old_objects_pointing_to_young
    /\ old_objects_with_cards_set' = g.old_objects_with_cards_set
    /\ prebuilt_root_objects' = g.prebuilt_root_objects
    /\ rawmalloced_objects' = g.rawmalloced_objects
    /\ rawmalloced_total_size' = g.rawmalloced_total_size
    /\ ac_all_objects' = g.ac_all_objects
    /\ ac_total_memory_used' = g.ac_total_memory_used
    /\ objects_with_finalizers' = g.objects_with_finalizers
    /\ run_finalizers' = g.run_finalizers
    /\ young_objects_with_weakrefs' = g.young_objects_with_weakrefs
    /\ old_objects_with_weakrefs' = g.old_objects_with_weakrefs
    /\ young_objects_shadows' = g.young_objects_shadows
    /\ min_heap_size' = g.min_heap_size
    /\ max_heap_size' = g.max_heap_size
    /\ max_heap_size_already_raised' = g.max_heap_size_already_raised
    /\ next_major_collection_threshold' = g.next_major_collection_threshold
    /\ finalizer_lock_count' = g.finalizer_lock_count
    /\ debug_always_do_minor_collect' = g.debug_always_do_minor_collect
    /\ errors' = g.errors
    /\ forw' = g.forw
    /\ recovered' = g.recovered
    /\ arena_sizes' = g.arena_sizes
    /\ fixedsize0' = g.fixedsize0
    /\ UNCHANGED jitvars

\* ------------------------------------------------------------------------
\* Objects
\* ------------------------------------------------------------------------
\* An object: the header (typeid, flags), the pointers it holds (the GC
\* pointers of the fixed part, or the items of an array of GC pointers, or
\* the weak pointer of a weak reference), the length of a var-sized object
\* and the card marker bytes in front of it.
Obj(typeid, flags, length, cards) ==
    [typeid |-> typeid, flags |-> flags, length |-> length,
     fields |-> Zeros(IF has_gcptr_in_varsize(typeid) THEN length
                      ELSE IF contains_weakptr(typeid) THEN 1
                      ELSE fixed_gcptrs(typeid)),
     cards |-> cards]

\* init_gc_object on zero-filled memory
init_gc_object(g, addr, typeid16, flags, length, cards) ==
    [g EXCEPT !.mem = Upd(@, addr, Obj(typeid16, flags, length, cards))]

header(g, obj) == g.mem[obj]
get_type_id(g, obj) == g.mem[obj].typeid

\* get_size: the size of the object without its header, rounded up
get_size(g, obj) ==
    LET typeid == get_type_id(g, obj) IN
    IF is_varsize(typeid)
    THEN round_up_for_allocation(size_gc_header + fixed_size(typeid)
             + varsize_item_sizes(typeid) * g.mem[obj].length) - size_gc_header
    ELSE IF typeid = 0 THEN g.fixedsize0
    ELSE fixed_size(typeid)

is_in_nursery(addr) == nursery <= addr /\ addr < nursery_top
appears_to_be_in_nursery(addr) == nursery <= addr /\ addr < nursery_top

is_forwarded(g, obj) == GCFLAG_FINALIZATION_ORDERING \in g.mem[obj].flags
get_forwarding_address(g, obj) == g.mem[obj].fields[1]
ForwardStub(newobj) ==
    [typeid |-> FORWARDED, flags |-> AllFlags, length |-> 0,
     fields |-> <<newobj>>, cards |-> <<>>]

get_total_memory_used(g) == g.ac_total_memory_used + g.rawmalloced_total_size

card_marking_words_for_length(length) ==
    (length + ((LONG_BIT * (2 ^ card_page_shift)) - 1))
        \div (2 ^ (card_page_shift + LONG_BIT_SHIFT))
card_marking_bytes_for_length(length) ==
    (length + ((8 * (2 ^ card_page_shift)) - 1)) \div (2 ^ (card_page_shift + 3))

\* bit number 'k' of a byte
Bit(byte, k) == (byte \div (2 ^ k)) % 2

Fail(g, cond, label) == IF cond THEN g ELSE [g EXCEPT !.errors = @ \cup {label}]

\* ------------------------------------------------------------------------
\* Memory outside the nursery
\* ------------------------------------------------------------------------
\* The blocks not handed out.  A request the pool cannot serve sets 'oom';
\* the actions are guarded by ~oom (the pool is a bound of the model).
FreeBlocks(g) == (1..MaxOld) \ DOMAIN g.mem
NewBlock(g) == IF FreeBlocks(g) = {} THEN MaxOld + 1
               ELSE CHOOSE b \in FreeBlocks(g) : \A c \in FreeBlocks(g) : b <= c
\* memory as malloc returns it, before its header is written
RawBlock == [typeid |-> 0, flags |-> {}, length |-> 0, fields |-> <<>>, cards |-> <<>>]

\* SimpleArenaCollection.malloc
ac_malloc(g, size) ==
    [Fail(Fail(Fail(g, size > 0, "malloc: size is null or negative"),
               size <= small_request_threshold, "malloc: size too big"),
          size % WORD = 0, "malloc: size is not aligned")
       EXCEPT !.mem = Upd(@, NewBlock(g), RawBlock),
              !.ac_all_objects = Append(@, <<NewBlock(g), size>>),
              !.ac_total_memory_used = @ + size,
              !.oom = @ \/ (FreeBlocks(g) = {}),
              !.result = NewBlock(g)]

\* llarena.arena_malloc for an object outside the nursery
arena_malloc(g) ==
    [g EXCEPT !.mem = Upd(@, NewBlock(g), RawBlock),
              !.oom = @ \/ (FreeBlocks(g) = {}),
              !.result = NewBlock(g)]

rawmalloced_record(g, totalsize) ==
    [g EXCEPT !.rawmalloced_total_size = @ + totalsize,
              !.rawmalloced_objects = Append(@, g.result),
              !.arena_sizes = Upd(@, g.result, totalsize)]

_malloc_out_of_nursery_nonsmall(g, totalsize) ==
    rawmalloced_record(
        arena_malloc(Fail(g, totalsize % WORD = 0,
                          "misaligned totalsize in _malloc_out_of_nursery_nonsmall")),
        totalsize)

_malloc_out_of_nursery(g, totalsize) ==
    IF totalsize <= small_request_threshold
    THEN ac_malloc(g, totalsize)
    ELSE _malloc_out_of_nursery_nonsmall(g, totalsize)

\* ------------------------------------------------------------------------
\* Minor collection
\* ------------------------------------------------------------------------
\* A place that holds a reference: <<"root", r>> or <<"field", obj, i>>.
ReadSlot(g, slot) ==
    IF slot[1] = "root" THEN g.roots[slot[2]] ELSE g.mem[slot[2]].fields[slot[3]]
WriteSlot(g, slot, v) ==
    IF slot[1] = "root" THEN [g EXCEPT !.roots[slot[2]] = v]
    ELSE [g EXCEPT !.mem[slot[2]].fields[slot[3]] = v]

\* A variant of drag_out_copy that does not add the copy to
\* old_objects_pointing_to_young, so that nothing traces the copy.
drag_out_copy_untraced(g, root, obj) ==
    WriteSlot([g EXCEPT !.mem = Upd(Upd(@, g.result, g.mem[obj]), obj,
                                    ForwardStub(g.result))],
              root, g.result)

\* the end of _trace_drag_out: 'g' has the new memory in 'result'; raw_memcopy,
\* then the forwarding stub over the old object, then the reference is fixed
drag_out_copy(g, root, obj) ==
    WriteSlot([g EXCEPT !.mem = Upd(Upd(@, g.result, g.mem[obj]), obj,
                                    ForwardStub(g.result)),
                        !.old_objects_pointing_to_young = Append(@, g.result)],
              root, g.result)

\* the shadow allocated by id() becomes the new object
drag_out_shadow(g, obj) ==
    [Fail(g, obj \in DOMAIN g.young_objects_shadows,
          "GCFLAG_HAS_SHADOW but no shadow found")
       EXCEPT !.mem[obj].flags = @ \ {GCFLAG_HAS_SHADOW},
              !.shadowed = @ \cup {obj},
              !.result = IF obj \in DOMAIN g.young_objects_shadows
                         THEN g.young_objects_shadows[obj] ELSE NULL]

\* A variant of drag_out_object that leaves a reference to an object already
\* forwarded as it is.
drag_out_object_once(g, root, obj) ==
    IF ~is_in_nursery(obj) \/ is_forwarded(g, obj) THEN g
    ELSE drag_out_copy(IF GCFLAG_HAS_SHADOW \notin g.mem[obj].flags
                       THEN _malloc_out_of_nursery(g, size_gc_header + get_size(g, obj))
                       ELSE drag_out_shadow(g, obj),
                       root, obj)

drag_out_object(g, root, obj) ==
    IF ~is_in_nursery(obj) THEN g
    ELSE IF is_forwarded(g, obj)
    THEN WriteSlot(Fail(g, g.mem[obj].typeid = FORWARDED, "bogus header for young obj"),
                   root, get_forwarding_address(g, obj))
    ELSE drag_out_copy(IF GCFLAG_HAS_SHADOW \notin g.mem[obj].flags
                       THEN _malloc_out_of_nursery(g, size_gc_header + get_size(g, obj))
                       ELSE drag_out_shadow(g, obj),
                       root, obj)

_trace_drag_out(g, root) == drag_out_object(g, root, ReadSlot(g, root))

\* GCBase.trace restricted to the items start+1 .. stop of 'fields': the
\* callback is called on every GC pointer that is not NULL.  The weak pointer
\* of a weak reference is not a GC pointer.
RECURSIVE trace_drag(_, _, _, _)
trace_drag(g, obj, i, stop) ==
    IF i > stop THEN g
    ELSE trace_drag(IF g.mem[obj].fields[i] # NULL
                    THEN _trace_drag_out(g, <<"field", obj, i>>) ELSE g,
                    obj, i + 1, stop)

gcptrs(g, obj) ==
    IF contains_weakptr(g.mem[obj].typeid) \/ g.mem[obj].typeid \in {0, FORWARDED}
    THEN 0 ELSE Len(g.mem[obj].fields)

trace_and_drag_out_of_nursery(g, obj) == trace_drag(g, obj, 1, gcptrs(g, obj))

\* ('partial' keeps the ranges the collection traced: <<object, start, stop>>)
trace_and_drag_out_of_nursery_partial(g, obj, start, stop) ==
    trace_drag(Fail([g EXCEPT !.partial = @ \cup {<<obj, start, stop>>}],
                    start < stop,
                    "empty or negative range in trace_and_drag_out_of_nursery_partial()"),
               obj, start + 1, stop)

RECURSIVE walk_roots_drag(_, _)
walk_roots_drag(g, r) ==
    IF r > NumRoots THEN g
    ELSE walk_roots_drag(IF g.roots[r] # NULL
                         THEN _trace_drag_out(g, <<"root", r>>) ELSE g, r + 1)

collect_roots_in_nursery(g) == walk_roots_drag(g, 1)

\* the loop 'while cardbyte != 0' of collect_cardrefs_to_nursery
RECURSIVE cardrefs_bits(_, _, _, _, _, _)
cardrefs_bits(g, obj, cardbyte, interval_start, length, bytes) ==
    IF cardbyte = 0 THEN g
    ELSE
      LET set == cardbyte % 2 = 1
          clip == set /\ (interval_start + card_page_indices > length)
          interval_stop == IF clip THEN length
                           ELSE interval_start + card_page_indices
      IN cardrefs_bits(
             IF set
             THEN trace_and_drag_out_of_nursery_partial(
                      Fail(g, ~clip \/ (cardbyte <= 1 /\ bytes = 0),
                           "premature end of object"),
                      obj, interval_start, interval_stop)
             ELSE g,
             obj, cardbyte \div 2, interval_stop, length, bytes)

\* the loop 'while bytes > 0' over the card marker bytes, the j-th byte
\* being the one at offset ~(j-1) from the header
RECURSIVE cardrefs_bytes(_, _, _, _, _, _)
cardrefs_bytes(g, obj, j, nbytes, interval_start, length) ==
    IF j > nbytes THEN g
    ELSE
      cardrefs_bytes(cardrefs_bits([g EXCEPT !.mem[obj].cards[j] = 0], obj,
                                   g.mem[obj].cards[j], interval_start, length,
                                   nbytes - j),
                     obj, j + 1, nbytes, interval_start + 8 * card_page_indices,
                     length)

\* A variant of the loop body that clears the cards and traces the whole
\* array instead of the intervals of its set cards.
cardrefs_object_whole(g, obj) ==
    trace_and_drag_out_of_nursery(
        [g EXCEPT !.mem[obj].cards = [k \in DOMAIN @ |-> 0]], obj)

\* the body of the loop of collect_cardrefs_to_nursery for one object, its
\* CARDS_SET flag already cleared
cardrefs_object(g, obj) ==
    IF GCFLAG_NO_YOUNG_PTRS \notin g.mem[obj].flags
    THEN [g EXCEPT !.mem[obj].cards =
             [k \in DOMAIN @ |->
                 IF k <= card_marking_bytes_for_length(g.mem[obj].length)
                 THEN 0 ELSE @[k]]]
    ELSE cardrefs_bytes(g, obj, 1, card_marking_bytes_for_length(g.mem[obj].length),
                        0, g.mem[obj].length)

\* A variant of collect_cardrefs_to_nursery that leaves the list and the
\* cards as they are.
collect_cardrefs_to_nursery_skipped(g) == g

RECURSIVE collect_cardrefs_to_nursery(_)
collect_cardrefs_to_nursery(g) ==
    IF g.old_objects_with_cards_set = <<>> THEN g
    ELSE
      collect_cardrefs_to_nursery(
          cardrefs_object(
              [Fail(g, GCFLAG_CARDS_SET \in g.mem[Top(g.old_objects_with_cards_set)].flags,
                    "!GCFLAG_CARDS_SET but object in 'old_objects_with_cards_set'")
                 EXCEPT !.old_objects_with_cards_set = Pop(@),
                        !.mem[Top(g.old_objects_with_cards_set)].flags =
                            @ \ {GCFLAG_CARDS_SET}],
              Top(g.old_objects_with_cards_set)))

RECURSIVE collect_oldrefs_to_nursery(_)
collect_oldrefs_to_nursery(g) ==
    IF g.old_objects_pointing_to_young = <<>> THEN g
    ELSE
      collect_oldrefs_to_nursery(
          trace_and_drag_out_of_nursery(
              [g EXCEPT !.old_objects_pointing_to_young = Pop(@),
                        !.mem[Top(g.old_objects_pointing_to_young)].flags =
                            @ \cup {GCFLAG_NO_YOUNG_PTRS}],
              Top(g.old_objects_pointing_to_young)))

RECURSIVE invalidate_young_weakrefs(_)
invalidate_young_weakrefs(g) ==
    IF g.young_objects_with_weakrefs = <<>> THEN g
    ELSE
      LET yobj == Top(g.young_objects_with_weakrefs)
          g1 == [g EXCEPT !.young_objects_with_weakrefs = Pop(@)]
      IN IF ~is_forwarded(g1, yobj) THEN invalidate_young_weakrefs(g1)
         ELSE
           LET obj == get_forwarding_address(g1, yobj)
               pointing_to == g1.mem[obj].fields[1]
           IN IF is_in_nursery(pointing_to)
              THEN IF is_forwarded(g1, pointing_to)
                   THEN invalidate_young_weakrefs(
                          [g1 EXCEPT !.mem[obj].fields[1] =
                                         get_forwarding_address(g1, pointing_to),
                                     !.old_objects_with_weakrefs = Append(@, obj)])
                   ELSE invalidate_young_weakrefs(
                          [g1 EXCEPT !.mem[obj].fields[1] = NULL])
              ELSE invalidate_young_weakrefs(
                     [g1 EXCEPT !.old_objects_with_weakrefs = Append(@, obj)])

NurseryObjects(g) == {a \in DOMAIN g.mem : is_in_nursery(a)}

\* A variant of minor_collection_reset that forgets to reset nursery_free;
\* the properties of the nursery pointers must tell it from the original.
minor_collection_reset_keeps_free(g) ==
    [g EXCEPT !.log = Append(@, "minor"),
              !.young_objects_shadows = <<>>,
              !.mem = Rem(@, NurseryObjects(g)),
              !.forw = [a \in {b \in NurseryObjects(g) : is_forwarded(g, b)} |->
                           get_forwarding_address(g, a)]]

\* the end of minor_collection: the nursery is cleared and reset
minor_collection_reset(g) ==
    [g EXCEPT !.log = Append(@, "minor"),
              !.young_objects_shadows = <<>>,
              \* arena_reset of the nursery
              !.mem = Rem(@, NurseryObjects(g)),
              !.nursery_free = nursery,
              !.forw = [a \in {b \in NurseryObjects(g) : is_forwarded(g, b)} |->
                           get_forwarding_address(g, a)]]

\* collect_cardrefs_to_nursery runs when card_page_indices > 0, and
\* invalidate_young_weakrefs when young_objects_with_weakrefs is not empty:
\* on an empty list each of them does nothing
minor_collection(g) ==
    minor_collection_reset(
        invalidate_young_weakrefs(
            collect_oldrefs_to_nursery(
                collect_cardrefs_to_nursery(
                    collect_roots_in_nursery(g)))))

\* ------------------------------------------------------------------------
\* Major collection
\* ------------------------------------------------------------------------
\* GCBase.trace with a callback that pushes the referenced object: the GC
\* pointers of 'obj' that are not NULL, in field order.
NonNullPtrs(g, obj) ==
    SelectSeq(SubSeq(g.mem[obj].fields, 1, gcptrs(g, obj)), LAMBDA p : p # NULL)

\* the stack roots the root walker reports
StackRoots(g) == SelectSeq([r \in 1..NumRoots |-> g.roots[r]], LAMBDA p : p # NULL)

\* collect_roots that leaves out the queue run_finalizers
collect_roots_without_queue(g) ==
    [g EXCEPT !.objects_to_trace = @ \o g.prebuilt_root_objects \o StackRoots(g)]

collect_roots(g) ==
    [g EXCEPT !.objects_to_trace =
        @ \o g.prebuilt_root_objects \o StackRoots(g) \o g.run_finalizers]

\* A variant of visit that marks the object and does not trace it.
visit_shallow(g, obj) ==
    IF g.mem[obj].flags \cap {GCFLAG_VISITED, GCFLAG_NO_HEAP_PTRS} # {} THEN g
    ELSE [g EXCEPT !.mem[obj].flags = @ \cup {GCFLAG_VISITED}]

visit(g, obj) ==
    IF g.mem[obj].flags \cap {GCFLAG_VISITED, GCFLAG_NO_HEAP_PTRS} # {} THEN g
    ELSE [g EXCEPT !.mem[obj].flags = @ \cup {GCFLAG_VISITED},
                   !.objects_to_trace = @ \o NonNullPtrs(g, obj)]

RECURSIVE visit_all_objects(_)
visit_all_objects(g) ==
    IF g.objects_to_trace = <<>> THEN g
    ELSE LET obj == Top(g.objects_to_trace)
         IN visit_all_objects(visit([g EXCEPT !.objects_to_trace = Pop(@)], obj))

_finalization_state(g, obj) ==
    LET tid == g.mem[obj].flags IN
    IF GCFLAG_VISITED \in tid
    THEN (IF GCFLAG_FINALIZATION_ORDERING \in tid THEN 2 ELSE 3)
    ELSE (IF GCFLAG_FINALIZATION_ORDERING \in tid THEN 1 ELSE 0)

_bump_finalization_state_from_0_to_1(g, obj) ==
    [Fail(g, _finalization_state(g, obj) = 0, "unexpected finalization state != 0")
       EXCEPT !.mem[obj].flags = @ \cup {GCFLAG_FINALIZATION_ORDERING}]

RECURSIVE bump_2_to_3_loop(_, _)
bump_2_to_3_loop(g, pending) ==
    IF pending = <<>> THEN g
    ELSE LET y == Top(pending) IN
         IF GCFLAG_FINALIZATION_ORDERING \in g.mem[y].flags
         THEN bump_2_to_3_loop(
                [g EXCEPT !.mem[y].flags = @ \ {GCFLAG_FINALIZATION_ORDERING}],
                Pop(pending) \o NonNullPtrs(g, y))
         ELSE bump_2_to_3_loop(g, Pop(pending))

\* A variant of _recursively_bump_finalization_state_from_2_to_3 that takes
\* 'obj' alone from state 2 to state 3.
_bump_finalization_state_from_2_to_3(g, obj) ==
    [Fail(g, _finalization_state(g, obj) = 2, "unexpected finalization state != 2")
       EXCEPT !.mem[obj].flags = @ \ {GCFLAG_FINALIZATION_ORDERING}]

_recursively_bump_finalization_state_from_2_to_3(g, obj) ==
    bump_2_to_3_loop(Fail(g, _finalization_state(g, obj) = 2,
                          "unexpected finalization state != 2"), <<obj>>)

_recursively_bump_finalization_state_from_1_to_2(g, obj) ==
    visit_all_objects([g EXCEPT !.objects_to_trace = Append(@, obj)])

\* A variant of finalizers_pending that leaves an object found in state 2
\* in state 2.
RECURSIVE finalizers_pending_no_demotion(_, _)
finalizers_pending_no_demotion(g, pending) ==
    IF pending = <<>> THEN g
    ELSE IF _finalization_state(g, Top(pending)) = 0
    THEN finalizers_pending_no_demotion(
             _bump_finalization_state_from_0_to_1(g, Top(pending)),
             Pop(pending) \o NonNullPtrs(g, Top(pending)))
    ELSE finalizers_pending_no_demotion(g, Pop(pending))

\* the loop 'while pending.non_empty()' of deal_with_objects_with_finalizers
RECURSIVE finalizers_pending(_, _)
finalizers_pending(g, pending) ==
    IF pending = <<>> THEN g
    ELSE LET y == Top(pending)
             state == _finalization_state(g, y)
         IN IF state = 0
            THEN finalizers_pending(_bump_finalization_state_from_0_to_1(g, y),
                                    Pop(pending) \o NonNullPtrs(g, y))
            ELSE IF state = 2
            THEN finalizers_pending(
                     _recursively_bump_finalization_state_from_2_to_3(g, y),
                     Pop(pending))
            ELSE finalizers_pending(g, Pop(pending))

\* the loop over objects_with_finalizers; the result carries the local deques
\* in 'new_with_finalizer' and 'marked'
RECURSIVE finalizers_walk(_)
finalizers_walk(g) ==
    IF g.objects_with_finalizers = <<>> THEN g
    ELSE
      LET x == Head(g.objects_with_finalizers)
          g1 == Fail([g EXCEPT !.objects_with_finalizers = Tail(@)],
                     _finalization_state(g, x) # 1, "bad finalization state 1")
      IN IF GCFLAG_VISITED \in g1.mem[x].flags
         THEN finalizers_walk([g1 EXCEPT !.new_with_finalizer = Append(@, x)])
         ELSE finalizers_walk(
                _recursively_bump_finalization_state_from_1_to_2(
                    finalizers_pending([g1 EXCEPT !.marked = Append(@, x)], <<x>>),
                    x))

\* A variant of finalizers_marked that queues every marked object, in state
\* 2 or 3.
RECURSIVE finalizers_marked_all_queued(_)
finalizers_marked_all_queued(g) ==
    IF g.marked = <<>> THEN g
    ELSE finalizers_marked_all_queued(
             bump_2_to_3_loop([g EXCEPT !.marked = Tail(@),
                                        !.run_finalizers = Append(@, Head(g.marked))],
                              <<Head(g.marked)>>))

RECURSIVE finalizers_marked(_)
finalizers_marked(g) ==
    IF g.marked = <<>> THEN g
    ELSE
      LET x == Head(g.marked)
          state == _finalization_state(g, x)
          g1 == Fail([g EXCEPT !.marked = Tail(@)], state >= 2,
                     "unexpected finalization state < 2")
      IN IF state = 2
         THEN finalizers_marked(
                _recursively_bump_finalization_state_from_2_to_3(
                    [g1 EXCEPT !.run_finalizers = Append(@, x)], x))
         ELSE finalizers_marked([g1 EXCEPT !.new_with_finalizer = Append(@, x)])

deal_with_objects_with_finalizers(g) ==
    LET g1 == finalizers_marked(
                  finalizers_walk([g EXCEPT !.new_with_finalizer = <<>>,
                                            !.marked = <<>>]))
    IN [g1 EXCEPT !.objects_with_finalizers = g1.new_with_finalizer,
                  !.new_with_finalizer = <<>>]

\* the header flags read through a weak pointer
RECURSIVE invalidate_old_weakrefs_loop(_, _)
invalidate_old_weakrefs_loop(g, new_with_weakref) ==
    IF g.old_objects_with_weakrefs = <<>>
    THEN [g EXCEPT !.old_objects_with_weakrefs = new_with_weakref]
    ELSE
      LET obj == Top(g.old_objects_with_weakrefs)
          g1 == [g EXCEPT !.old_objects_with_weakrefs = Pop(@)]
      IN IF GCFLAG_VISITED \notin g1.mem[obj].flags
         THEN invalidate_old_weakrefs_loop(g1, new_with_weakref)
         ELSE LET pointing_to == g1.mem[obj].fields[1] IN
              IF GCFLAG_VISITED \in g1.mem[pointing_to].flags
              THEN invalidate_old_weakrefs_loop(g1, Append(new_with_weakref, obj))
              ELSE invalidate_old_weakrefs_loop(
                       [g1 EXCEPT !.mem[obj].fields[1] = NULL], new_with_weakref)

invalidate_old_weakrefs(g) == invalidate_old_weakrefs_loop(g, <<>>)

\* the size free_unvisited_rawmalloc_objects gives back for 'obj'
rawmalloc_allocsize(g, obj) ==
    (size_gc_header + get_size(g, obj))
    + (IF card_page_indices > 0 /\ GCFLAG_HAS_CARDS \in g.mem[obj].flags
       THEN card_marking_words_for_length(g.mem[obj].length) * WORD ELSE 0)

RECURSIVE free_unvisited_loop(_, _)
free_unvisited_loop(g, list) ==
    IF list = <<>> THEN g
    ELSE
      LET obj == Top(list) IN
      IF GCFLAG_VISITED \in g.mem[obj].flags
      THEN free_unvisited_loop(
             [g EXCEPT !.mem[obj].flags = @ \ {GCFLAG_VISITED},
                       !.rawmalloced_objects = Append(@, obj)], Pop(list))
      ELSE free_unvisited_loop(
             [g EXCEPT !.mem = Rem(@, {obj}),
                       !.freed = @ \cup {obj},
                       !.arena_sizes = Rem(@, {obj}),
                       !.rawmalloced_total_size = @ - rawmalloc_allocsize(g, obj)],
             Pop(list))

free_unvisited_rawmalloc_objects(g) ==
    free_unvisited_loop([g EXCEPT !.rawmalloced_objects = <<>>],
                        g.rawmalloced_objects)

\* SimpleArenaCollection.mass_free(self._free_if_unvisited)
RECURSIVE mass_free_loop(_, _)
mass_free_loop(g, objs) ==
    IF objs = <<>> THEN g
    ELSE
      LET rawobj == Head(objs)[1]
          nsize == Head(objs)[2]
      IN IF GCFLAG_VISITED \in g.mem[rawobj].flags
         THEN mass_free_loop(
                [g EXCEPT !.mem[rawobj].flags = @ \ {GCFLAG_VISITED},
                          !.ac_all_objects = Append(@, Head(objs)),
                          !.ac_total_memory_used = @ + nsize], Tail(objs))
         ELSE mass_free_loop([g EXCEPT !.mem = Rem(@, {rawobj}),
                                       !.freed = @ \cup {rawobj}], Tail(objs))

mass_free(g) ==
    mass_free_loop([g EXCEPT !.ac_all_objects = <<>>, !.ac_total_memory_used = 0],
                   g.ac_all_objects)

RECURSIVE reset_gcflag_visited(_, _)
reset_gcflag_visited(g, i) ==
    IF i > Len(g.prebuilt_root_objects) THEN g
    ELSE reset_gcflag_visited(
           [g EXCEPT !.mem[g.prebuilt_root_objects[i]].flags = @ \ {GCFLAG_VISITED}],
           i + 1)

\* set_major_threshold_from: the new threshold, and 'bounded'
set_major_threshold_from(g, threshold, reserving_size) ==
    LET threshold_max == g.next_major_collection_threshold * growth_rate_max
        t1 == (IF threshold > threshold_max THEN threshold_max ELSE threshold)
              + reserving_size
        t2 == IF t1 < g.min_heap_size THEN g.min_heap_size ELSE t1
        bounded == g.max_heap_size > 0 /\ t2 > g.max_heap_size
    IN [g EXCEPT !.next_major_collection_threshold =
                     IF bounded THEN g.max_heap_size ELSE t2,
                 !.bounded = bounded]

\* major_collection up to the call of execute_finalizers.  'raised' says that
\* MemoryError was raised, 'fatal' that debug_fatalerror aborted the program.
major_collection_mark(g) ==
    visit_all_objects(
        collect_roots([Fail(g, g.nursery_free = nursery,
                            "nursery not empty in major_collection()")
                         EXCEPT !.objects_to_trace = <<>>]))

major_collection_weakrefs(g) ==
    IF g.old_objects_with_weakrefs # <<>> THEN invalidate_old_weakrefs(g) ELSE g

major_collection_finalizers(g) ==
    IF g.objects_with_finalizers # <<>>
    THEN deal_with_objects_with_finalizers(g) ELSE g

major_collection_sweep(g) ==
    reset_gcflag_visited(mass_free(free_unvisited_rawmalloc_objects(g)), 1)

major_collection_new_threshold(g, reserving_size) ==
    set_major_threshold_from(
        g, get_total_memory_used(g) * major_collection_threshold, reserving_size)

\* A variant of major_collection_bounded that raises MemoryError and does
\* not remember that it did.
major_collection_bounded_unlatched(g, reserving_size) ==
    IF g.bounded /\ (get_total_memory_used(g) + reserving_size
                       >= g.next_major_collection_threshold)
    THEN [g EXCEPT !.log = Append(@, "major"), !.raised = TRUE]
    ELSE [g EXCEPT !.log = Append(@, "major")]

\* the check of max_heap_size at the end of major_collection
major_collection_bounded(g, reserving_size) ==
    IF g.bounded /\ (get_total_memory_used(g) + reserving_size
                       >= g.next_major_collection_threshold)
    THEN [g EXCEPT !.log = Append(@, "major"),
                   !.fatal = g.max_heap_size_already_raised,
                   !.max_heap_size_already_raised = TRUE,
                   !.raised = TRUE]
    ELSE [g EXCEPT !.log = Append(@, "major"),
                   !.recovered = g.max_heap_size_already_raised]

major_collection(g, reserving_size) ==
    major_collection_bounded(
        major_collection_new_threshold(
            major_collection_sweep(
                major_collection_finalizers(
                    major_collection_weakrefs(
                        major_collection_mark(g)))),
            reserving_size),
        reserving_size)

\* ------------------------------------------------------------------------
\* Allocation outside the nursery
\* ------------------------------------------------------------------------
external_totalsize(typeid, length) ==
    IF length = 0 THEN size_gc_header + fixed_size(typeid)
    ELSE size_gc_header + fixed_size(typeid) + varsize_item_sizes(typeid) * length

\* the new object and its full malloced size are recorded
external_malloc_record(g, allocsize) ==
    [g EXCEPT !.rawmalloced_total_size = @ + allocsize,
              !.rawmalloced_objects = Append(@, g.result),
              !.arena_sizes = Upd(@, g.result, allocsize)]

\* the common code that fills the header and the length of the object
external_malloc_init(g, typeid, extra_flags, length, cards) ==
    init_gc_object(g, g.result, typeid, {GCFLAG_NO_YOUNG_PTRS} \cup extra_flags,
                   IF is_varsize(typeid) THEN length ELSE 0, cards)

\* external_malloc after its collection: the allocation itself
external_malloc_allocate(g, typeid, length) ==
    LET totalsize == external_totalsize(typeid, length) IN
    IF totalsize <= small_request_threshold
    THEN external_malloc_init(
             ac_malloc(Fail(g, round_up_for_allocation(totalsize)
                                <= small_request_threshold,
                            "rounding up made totalsize > small_request_threshold"),
                       round_up_for_allocation(totalsize)),
             typeid, {}, length, <<>>)
    ELSE LET nocards == card_page_indices <= 0 \/ ~has_gcptr_in_varsize(typeid)
                          \/ totalsize <= nonlarge_gcptrs_max
             extra_words == IF nocards THEN 0
                            ELSE card_marking_words_for_length(length)
             cardheadersize == WORD * extra_words
             extra_flags == IF nocards THEN {} ELSE {GCFLAG_HAS_CARDS}
             allocsize == cardheadersize + round_up_for_allocation(totalsize)
         IN external_malloc_init(
                external_malloc_record(arena_malloc(g), allocsize),
                typeid, extra_flags, length, Zeros(cardheadersize))

\* GCBase.execute_finalizers up to the call of the first finalizer: 'susp'
\* says that a finalizer ('finobj' is its object) is now running.
execute_finalizers(g) ==
    IF g.run_finalizers # <<>> /\ g.finalizer_lock_count + 1 <= 1
    THEN [g EXCEPT !.finalizer_lock_count = @ + 1,
                   !.run_finalizers = Tail(@), !.susp = TRUE,
                   !.finobj = Head(g.run_finalizers)]
    ELSE [g EXCEPT !.finalizer_lock_count = (@ + 1) - 1]

\* major_collection as a whole, up to the first finalizer
execute_finalizers_unless_raised(g) ==
    IF g.raised THEN g ELSE execute_finalizers(g)

major_collection_and_finalizers(g, reserving_size) ==
    execute_finalizers_unless_raised(major_collection(g, reserving_size))

\* external_malloc up to the first finalizer of its collection
external_malloc_collect(g, typeid, length) ==
    LET totalsize == external_totalsize(typeid, length) IN
    IF get_total_memory_used(g) + totalsize > g.next_major_collection_threshold
    THEN major_collection_and_finalizers(minor_collection(g), totalsize)
    ELSE g

\* collect_and_reserve up to the first finalizer of its major collection
collect_and_reserve_major(g) ==
    IF get_total_memory_used(g) > g.next_major_collection_threshold
    THEN major_collection_and_finalizers(
             [g EXCEPT !.used = get_total_memory_used(g),
                       !.thr = g.next_major_collection_threshold], 0)
    ELSE [g EXCEPT !.used = get_total_memory_used(g),
                   !.thr = g.next_major_collection_threshold]

collect_and_reserve_collect(g) == collect_and_reserve_major(minor_collection(g))

\* collect_and_reserve from there on; 'major' says that the major collection ran
reserve(g, totalsize) ==
    [Fail(g, g.nursery_free + totalsize <= nursery_top, "nursery overflow")
       EXCEPT !.result = g.nursery_free,
              !.nursery_free = IF g.debug_always_do_minor_collect THEN nursery_top
                               ELSE g.nursery_free + totalsize]

\* A variant of collect_and_reserve_reserve without the second minor
\* collection; the properties of collect_and_reserve must tell it from the
\* original.
collect_and_reserve_reserve_once(g, totalsize, major) ==
    reserve([g EXCEPT !.freem = g.nursery_free], totalsize)

collect_and_reserve_reserve(g, totalsize, major) ==
    reserve(IF major /\ g.nursery_free + totalsize > nursery_top
            THEN minor_collection([g EXCEPT !.freem = g.nursery_free])
            ELSE [g EXCEPT !.freem = g.nursery_free],
            totalsize)

\* A variant of malloc_build that builds the object as external_malloc does,
\* with GCFLAG_NO_YOUNG_PTRS; the properties of allocation must tell it from
\* the original.
malloc_build_old(g, typeid, length) ==
    IF contains_weakptr(typeid)
    THEN [init_gc_object(g, g.result, typeid, {GCFLAG_NO_YOUNG_PTRS}, length, <<>>)
            EXCEPT !.young_objects_with_weakrefs = Append(@, g.result)]
    ELSE init_gc_object(g, g.result, typeid, {GCFLAG_NO_YOUNG_PTRS}, length, <<>>)

\* the end of malloc_fixedsize_clear / malloc_varsize_clear: build the object
\* in the reserved nursery memory
malloc_build(g, typeid, length) ==
    IF contains_weakptr(typeid)
    THEN [init_gc_object(g, g.result, typeid, {}, length, <<>>)
            EXCEPT !.young_objects_with_weakrefs = Append(@, g.result)]
    ELSE init_gc_object(g, g.result, typeid, {}, length, <<>>)

\* ------------------------------------------------------------------------
\* Write barrier
\* ------------------------------------------------------------------------
\* A variant of remember_young_pointer that lists the object and keeps its
\* NO_YOUNG_PTRS flag; the effect of the barrier must tell it from the original.
remember_young_pointer_keeps_flag(g, addr_struct, newvalue) ==
    IF appears_to_be_in_nursery(newvalue)
    THEN [g EXCEPT !.old_objects_pointing_to_young = Append(@, addr_struct)]
    ELSE g

\* A variant of remember_young_pointer that registers a prebuilt object only
\* when the value written is in the nursery.
remember_young_pointer_young_only(g, addr_struct, newvalue) ==
    IF appears_to_be_in_nursery(newvalue)
    THEN [g EXCEPT !.old_objects_pointing_to_young = Append(@, addr_struct),
                   !.mem[addr_struct].flags =
                       @ \ {GCFLAG_NO_YOUNG_PTRS, GCFLAG_NO_HEAP_PTRS},
                   !.prebuilt_root_objects =
                       IF GCFLAG_NO_HEAP_PTRS \in g.mem[addr_struct].flags
                       THEN Append(@, addr_struct) ELSE @]
    ELSE g

remember_young_pointer(g, addr_struct, newvalue) ==
    LET g0 == Fail(g, ~is_in_nursery(addr_struct),
                   "nursery object with GCFLAG_NO_YOUNG_PTRS")
        g1 == IF appears_to_be_in_nursery(newvalue)
              THEN [g0 EXCEPT !.old_objects_pointing_to_young = Append(@, addr_struct),
                              !.mem[addr_struct].flags = @ \ {GCFLAG_NO_YOUNG_PTRS}]
              ELSE g0
    IN IF GCFLAG_NO_HEAP_PTRS \in g1.mem[addr_struct].flags
       THEN [g1 EXCEPT !.mem[addr_struct].flags = @ \ {GCFLAG_NO_HEAP_PTRS},
                       !.prebuilt_root_objects = Append(@, addr_struct)]
       ELSE g1

\* A variant of remember_young_pointer_from_array that sets the card bit and
\* the flag of an array with card markers but never lists the array.
remember_young_pointer_from_array_unlisted(g, addr_array, index) ==
    IF GCFLAG_HAS_CARDS \notin g.mem[addr_array].flags
    THEN [g EXCEPT !.old_objects_pointing_to_young = Append(@, addr_array),
                   !.mem[addr_array].flags = @ \ {GCFLAG_NO_YOUNG_PTRS, GCFLAG_NO_HEAP_PTRS},
                   !.prebuilt_root_objects =
                       IF GCFLAG_NO_HEAP_PTRS \in g.mem[addr_array].flags
                       THEN Append(@, addr_array) ELSE @]
    ELSE [g EXCEPT !.mem[addr_array].cards[((index \div (2 ^ card_page_shift)) \div 8) + 1] =
                       IF Bit(@, (index \div (2 ^ card_page_shift)) % 8) = 1 THEN @
                       ELSE @ + 2 ^ ((index \div (2 ^ card_page_shift)) % 8),
                   !.mem[addr_array].flags = @ \cup {GCFLAG_CARDS_SET}]

remember_young_pointer_from_array(g, addr_array, index) ==
    LET g0 == Fail(g, ~is_in_nursery(addr_array),
                   "nursery array with GCFLAG_NO_YOUNG_PTRS")
    IN IF GCFLAG_HAS_CARDS \notin g0.mem[addr_array].flags
       THEN LET g1 == [g0 EXCEPT !.old_objects_pointing_to_young = Append(@, addr_array),
                                 !.mem[addr_array].flags = @ \ {GCFLAG_NO_YOUNG_PTRS}]
            IN IF GCFLAG_NO_HEAP_PTRS \in g1.mem[addr_array].flags
               THEN [g1 EXCEPT !.mem[addr_array].flags = @ \ {GCFLAG_NO_HEAP_PTRS},
                               !.prebuilt_root_objects = Append(@, addr_array)]
               ELSE g1
       ELSE LET bitindex == index \div (2 ^ card_page_shift)
                byteindex == bitindex \div 8
                byte == g0.mem[addr_array].cards[byteindex + 1]
            IN IF Bit(byte, bitindex % 8) = 1 THEN g0
               ELSE LET g1 == [g0 EXCEPT !.mem[addr_array].cards[byteindex + 1] =
                                             byte + 2 ^ (bitindex % 8)]
                    IN IF GCFLAG_CARDS_SET \notin g1.mem[addr_array].flags
                       THEN [g1 EXCEPT !.old_objects_with_cards_set =
                                           Append(@, addr_array),
                                       !.mem[addr_array].flags = @ \cup {GCFLAG_CARDS_SET}]
                       ELSE g1

\* "assume that 'addr_struct' may now contain young pointers"
\* An assume_young_pointers that lists the object whatever its flag says.
assume_young_pointers_always(g, addr_struct) ==
    [g EXCEPT !.old_objects_pointing_to_young = Append(@, addr_struct),
              !.mem[addr_struct].flags =
                  @ \ {GCFLAG_NO_YOUNG_PTRS, GCFLAG_NO_HEAP_PTRS},
              !.prebuilt_root_objects =
                  IF GCFLAG_NO_HEAP_PTRS \in g.mem[addr_struct].flags
                  THEN Append(@, addr_struct) ELSE @]

assume_young_pointers(g, addr_struct) ==
    IF GCFLAG_NO_YOUNG_PTRS \in g.mem[addr_struct].flags
    THEN [g EXCEPT !.old_objects_pointing_to_young = Append(@, addr_struct),
                   !.mem[addr_struct].flags =
                       @ \ {GCFLAG_NO_YOUNG_PTRS, GCFLAG_NO_HEAP_PTRS},
                   !.prebuilt_root_objects =
                       IF GCFLAG_NO_HEAP_PTRS \in g.mem[addr_struct].flags
                       THEN Append(@, addr_struct) ELSE @]
    ELSE g

write_barrier(g, newvalue, addr_struct) ==
    IF GCFLAG_NO_YOUNG_PTRS \in g.mem[addr_struct].flags
    THEN remember_young_pointer(g, addr_struct, newvalue)
    ELSE g

write_barrier_from_array(g, newvalue, addr_array, index) ==
    IF GCFLAG_NO_YOUNG_PTRS \in g.mem[addr_array].flags
    THEN IF card_page_indices > 0
         THEN remember_young_pointer_from_array(g, addr_array, index)
         ELSE remember_young_pointer(g, addr_array, newvalue)
    ELSE g

\* ------------------------------------------------------------------------
\* Operations of the collector as steps of the program
\* ------------------------------------------------------------------------
\* An operation in progress: which entry point ('api'), what it still has to
\* do ('kind': reserve nursery memory, allocate externally, or nothing more
\* for collect) and its arguments.  'target' is the root a new weak
\* reference is made to point to.
Op(kind, api, typeid, length, root, totalsize, target) ==
    [kind |-> kind, api |-> api, typeid |-> typeid, length |-> length,
     root |-> root, totalsize |-> totalsize, target |-> target,
     major |-> FALSE, log |-> <<>>, used |-> 0, thr |-> 0]
NoOp == Op("none", "none", 0, 0, 0, 0, 0)

\* what 'last' records of an operation
Done(k, g, outcome) ==
    [op |-> k.api, kind |-> k.kind, typeid |-> k.typeid, length |-> k.length,
     root |-> k.root, totalsize |-> k.totalsize, major |-> k.major,
     result |-> g.result, log |-> g.log, used |-> g.used, thr |-> g.thr,
     freem |-> g.freem, freed |-> g.freed, shadowed |-> g.shadowed,
     bounded |-> g.bounded, partial |-> g.partial,
     outcome |-> outcome,
     obj |-> NULL, newvalue |-> NULL, index |-> 0]

\* the value a store writes: NULL or what a root holds
Value(src) == IF src = 0 THEN NULL ELSE roots[src]

Stored(g, op, obj, newvalue, index) ==
    [Done(NoOp, g, "done") EXCEPT !.op = op, !.obj = obj, !.newvalue = newvalue,
                                  !.index = index]

\* The rest of operation 'k' once its collection (and the finalizers it ran)
\* is over; the caller stores the result in its root.
\* the caller of malloc: a new weak reference gets its target, a new object
\* with a finalizer is registered (malloc_fixedsize_clear), the result goes
\* to a root
Return(g, k) ==
    [g EXCEPT !.roots[k.root] = g.result,
              !.mem[g.result].fields =
                  IF contains_weakptr(k.typeid) /\ k.target # 0
                  THEN <<g.roots[k.target]>> ELSE @,
              !.objects_with_finalizers =
                  IF k.kind = "external" /\ k.api = "malloc_fixedsize_clear"
                       /\ getfinalizer(k.typeid)
                  THEN Append(@, g.result) ELSE @]

Complete(g, k) ==
    IF k.kind = "reserve"
    THEN Return(malloc_build(collect_and_reserve_reserve(g, k.totalsize, k.major),
                             k.typeid, k.length), k)
    ELSE IF k.kind = "external"
    THEN Return(external_malloc_allocate(g, k.typeid, k.length), k)
    ELSE g

\* operation 'k' returns
Finish(g, k) ==
    /\ ~g.oom
    /\ Commit(g)
    /\ pc' = "run"
    /\ last' = Done(k, g, "done")
    /\ UNCHANGED <<cont, finalizing>>

\* 'g' is the state after the collection of operation 'k': the program
\* aborts (debug_fatalerror), or MemoryError ends the operation, or a
\* finalizer starts running and 'k' waits for it, or 'k' completes.
Settle(g, k) ==
    /\ ~g.oom
    /\ allocs' = IF k.kind = "collect" THEN allocs ELSE allocs - 1
    /\ stores' = stores
    /\ req' = NoOp
    /\ IF g.fatal
       THEN /\ Commit(g)
            /\ pc' = "aborted"
            /\ last' = Done(k, g, "fatal")
            /\ UNCHANGED <<cont, finalizing>>
       ELSE IF g.raised
       THEN /\ Commit(g)
            /\ pc' = "run"
            /\ last' = Done(k, g, "MemoryError")
            /\ UNCHANGED <<cont, finalizing>>
       ELSE IF g.susp
       THEN /\ Commit(g)
            /\ pc' = "run"
            /\ cont' = [k EXCEPT !.log = g.log, !.used = g.used, !.thr = g.thr]
            /\ finalizing' = g.finobj
            /\ last' = Done(k, g, "finalizer")
       ELSE Finish(Complete(g, k), k)

\* the nursery path of malloc_fixedsize_clear / malloc_varsize_clear: bump
\* nursery_free, then either build the object or go to collect_and_reserve
Bump(k) ==
    LET result == nursery_free
        g == [St EXCEPT !.nursery_free = result + k.totalsize, !.result = result]
    IN IF g.nursery_free > nursery_top
       THEN /\ Commit(g)
            /\ pc' = "overflow"
            /\ req' = k
            /\ last' = Done(k, g, "overflow")
            /\ UNCHANGED <<cont, finalizing, allocs, stores>>
       ELSE /\ Finish(Return(malloc_build(g, k.typeid, k.length), k), k)
            /\ req' = NoOp
            /\ allocs' = allocs - 1
            /\ stores' = stores

malloc_fixedsize_clear(r, typeid, target) ==
    /\ pc = "run"
    /\ allocs > 0
    /\ LET size == fixed_size(typeid)
           totalsize == size_gc_header + size
           needs_finalizer == getfinalizer(typeid)
       IN IF needs_finalizer \/ totalsize > nonlarge_max
          THEN LET k == Op("external", "malloc_fixedsize_clear", typeid, 0, r,
                           totalsize, target)
               IN Settle(external_malloc_collect(
                           Fail(St, ~contains_weakptr(typeid),
                                "'contains_weakptr' specified for a large object"),
                           typeid, 0), k)
          ELSE Bump(Op("reserve", "malloc_fixedsize_clear", typeid, 0, r,
                       Max(totalsize, minimal_size_in_nursery), target))

malloc_varsize_clear(r, typeid, length) ==
    /\ pc = "run"
    /\ allocs > 0
    /\ LET size == fixed_size(typeid)
           itemsize == varsize_item_sizes(typeid)
           nonvarsize == size_gc_header + size
           nonlarge == IF has_gcptr_in_varsize(typeid) THEN nonlarge_gcptrs_max
                       ELSE nonlarge_max
           too_many_items == IF itemsize = 0 THEN nonvarsize > nonlarge
                             ELSE length > (nonlarge - nonvarsize) \div itemsize
           totalsize == round_up_for_allocation(nonvarsize + itemsize * length)
       IN IF too_many_items
          THEN Settle(external_malloc_collect(St, typeid, length),
                      Op("external", "malloc_varsize_clear", typeid, length, r,
                         external_totalsize(typeid, length), 0))
          ELSE Bump(Op("reserve", "malloc_varsize_clear", typeid, length, r,
                       totalsize, 0))

\* malloc_fixedsize_nonmovable / malloc_varsize_nonmovable
malloc_nonmovable(r, typeid, length) ==
    /\ pc = "run"
    /\ allocs > 0
    /\ Settle(external_malloc_collect(St, typeid, length),
              Op("external", "malloc_nonmovable", typeid, length, r,
                 external_totalsize(typeid, length), 0))

\* the major collection ran if the memory used was above the threshold
SettleReserve(g) == Settle(g, [req EXCEPT !.major = g.used > g.thr])

\* collect_and_reserve, called with nursery_free beyond nursery_top
collect_and_reserve ==
    /\ pc = "overflow"
    /\ SettleReserve(collect_and_reserve_collect(St))

collect_major(g, gen) ==
    IF gen > 0 THEN major_collection_and_finalizers(g, 0) ELSE g

collect(gen) ==
    /\ pc = "run"
    /\ Settle(collect_major(minor_collection(St), gen),
              Op("collect", "collect", 0, gen, 0, 0, 0))

\* the interrupted operation returns
Resume(g) ==
    /\ ~g.oom
    /\ Commit(g)
    /\ last' = Done(cont, g, "done")

\* a finalizer returns to the loop of execute_finalizers, which calls the
\* next one or returns to the operation that ran the major collection
finalizer_return ==
    /\ pc = "run"
    /\ finalizer_lock_count = 1
    /\ IF run_finalizers # <<>>
       THEN /\ run_finalizers' = Tail(run_finalizers)
            /\ finalizing' = Head(run_finalizers)
            /\ last' = Stored(St, "finalizer", Head(run_finalizers), NULL, 0)
            /\ UNCHANGED <<mem, roots, nursery_free, old_objects_pointing_to_young,
                           old_objects_with_cards_set, prebuilt_root_objects,
                           rawmalloced_objects, rawmalloced_total_size,
                           ac_all_objects, ac_total_memory_used,
                           objects_with_finalizers, young_objects_with_weakrefs,
                           old_objects_with_weakrefs, young_objects_shadows,
                           next_major_collection_threshold, min_heap_size,
                           max_heap_size, max_heap_size_already_raised,
                           finalizer_lock_count, debug_always_do_minor_collect,
                           errors, forw, recovered, arena_sizes, fixedsize0, jitvars,
                   pc, cont,
                   req, allocs, stores>>
       ELSE /\ Resume(Complete([St EXCEPT !.finalizer_lock_count = 0,
                                          !.log = cont.log, !.used = cont.used,
                                          !.thr = cont.thr], cont))
            /\ cont' = NoOp
            /\ finalizing' = NULL
            /\ UNCHANGED <<pc, req, allocs, stores>>

\* ------------------------------------------------------------------------
\* The mutator
\* ------------------------------------------------------------------------
\* obj.field = newvalue, with the write barrier in front of the store
setfield(r, src) ==
    /\ pc = "run"
    /\ stores > 0
    /\ roots[r] # NULL
    /\ fixed_gcptrs(mem[roots[r]].typeid) = 1
    /\ LET obj == roots[r]
           newvalue == Value(src)
           g == write_barrier(St, newvalue, obj)
           g1 == [g EXCEPT !.mem[obj].fields[1] = newvalue]
       IN /\ Commit(g1)
          /\ last' = Stored(g1, "setfield", obj, newvalue, 0)
    /\ stores' = stores - 1
    /\ UNCHANGED <<pc, cont, req, finalizing, allocs>>

\* array[index] = newvalue, with the write barrier in front of the store
setarrayitem(r, index, src) ==
    /\ pc = "run"
    /\ stores > 0
    /\ roots[r] # NULL
    /\ has_gcptr_in_varsize(mem[roots[r]].typeid)
    /\ index < mem[roots[r]].length
    /\ LET obj == roots[r]
           newvalue == Value(src)
           g == write_barrier_from_array(St, newvalue, obj, index)
           g1 == [g EXCEPT !.mem[obj].fields[index + 1] = newvalue]
       IN /\ Commit(g1)
          /\ last' = Stored(g1, "setarrayitem", obj, newvalue, index)
    /\ stores' = stores - 1
    /\ UNCHANGED <<pc, cont, req, finalizing, allocs>>

\* the JIT tells the collector that the object a root holds may now contain
\* young pointers
assume_young(r) ==
    /\ pc = "run"
    /\ stores > 0
    /\ roots[r] # NULL
    /\ Commit(assume_young_pointers(St, roots[r]))
    /\ last' = Stored(assume_young_pointers(St, roots[r]), "assume_young_pointers",
                      roots[r], NULL, 0)
    /\ stores' = stores - 1
    /\ UNCHANGED <<pc, cont, req, finalizing, allocs>>

\* id(): the address the object will have once it is out of the nursery.
\* A nursery object gets a "shadow", memory outside the nursery whose header
\* is the invalid tid 0 until the next minor collection moves the object
\* there.  (special_case_prebuilt is False: this is id(), not identityhash().)
id_shadow(g, obj) ==
    [g EXCEPT !.mem[g.result] = RawBlock,
              !.mem[obj].flags = @ \cup {GCFLAG_HAS_SHADOW},
              !.young_objects_shadows = Upd(@, obj, g.result)]

\* A variant of id_or_identityhash that allocates a shadow at every call.
id_or_identityhash_new_shadow(g, obj) ==
    IF obj # NULL /\ is_in_nursery(obj)
    THEN id_shadow(_malloc_out_of_nursery(g, size_gc_header + get_size(g, obj)), obj)
    ELSE [g EXCEPT !.result = obj]

id_or_identityhash(g, obj) ==
    IF obj # NULL /\ is_in_nursery(obj)
    THEN IF GCFLAG_HAS_SHADOW \in g.mem[obj].flags
         THEN [Fail(g, obj \in DOMAIN g.young_objects_shadows,
                    "GCFLAG_HAS_SHADOW but no shadow found")
                 EXCEPT !.result = IF obj \in DOMAIN g.young_objects_shadows
                                   THEN g.young_objects_shadows[obj] ELSE NULL]
         ELSE id_shadow(_malloc_out_of_nursery(g, size_gc_header + get_size(g, obj)),
                        obj)
    ELSE [g EXCEPT !.result = obj]

IdReturn(g, obj) ==
    /\ ~g.oom
    /\ Commit(g)
    /\ last' = Stored(g, "id", obj, NULL, 0)

id(r) ==
    /\ pc = "run"
    /\ allocs > 0
    /\ roots[r] # NULL
    /\ IdReturn(id_or_identityhash(St, roots[r]), roots[r])
    /\ allocs' = allocs - 1
    /\ UNCHANGED <<pc, cont, req, finalizing, stores>>

\* a root is loaded from a field, an array item or a weak reference
getfield(r, i, dst) ==
    /\ pc = "run"
    /\ roots[r] # NULL
    /\ i \in DOMAIN mem[roots[r]].fields
    /\ roots[dst] # mem[roots[r]].fields[i]
    /\ roots' = [roots EXCEPT ![dst] = mem[roots[r]].fields[i]]
    /\ last' = Stored(St, "load", NULL, NULL, 0)
    /\ UNCHANGED <<mem, nursery_free, old_objects_pointing_to_young,
                   old_objects_with_cards_set, prebuilt_root_objects,
                   rawmalloced_objects, rawmalloced_total_size,
                   ac_all_objects, ac_total_memory_used,
                   objects_with_finalizers, run_finalizers,
                   young_objects_with_weakrefs,
                   old_objects_with_weakrefs, young_objects_shadows,
                   next_major_collection_threshold, min_heap_size,
                   max_heap_size, max_heap_size_already_raised,
                   finalizer_lock_count, debug_always_do_minor_collect,
                   errors, forw, recovered, arena_sizes, fixedsize0, jitvars,
                   pc, cont,
                   req, finalizing, allocs, stores>>

\* a root goes out of scope
droproot(r) ==
    /\ pc = "run"
    /\ roots[r] # NULL
    /\ roots' = [roots EXCEPT ![r] = NULL]
    /\ last' = Stored(St, "load", NULL, NULL, 0)
    /\ UNCHANGED <<mem, nursery_free, old_objects_pointing_to_young,
                   old_objects_with_cards_set, prebuilt_root_objects,
                   rawmalloced_objects, rawmalloced_total_size,
                   ac_all_objects, ac_total_memory_used,
                   objects_with_finalizers, run_finalizers,
                   young_objects_with_weakrefs,
                   old_objects_with_weakrefs, young_objects_shadows,
                   next_major_collection_threshold, min_heap_size,
                   max_heap_size, max_heap_size_already_raised,
                   finalizer_lock_count, debug_always_do_minor_collect,
                   errors, forw, recovered, arena_sizes, fixedsize0, jitvars,
                   pc, cont,
                   req, finalizing, allocs, stores>>

\* The prebuilt objects, as init_gc_object_immortal leaves them: a struct
\* that points to the next prebuilt object, then an array of one GC pointer,
\* and so on alternately.
PrebuiltObjects == {PrebuiltBase + k : k \in 1..NumPrebuilt}
Prebuilt(k) ==
    IF k % 2 = 1
    THEN [Obj(T_S, {GCFLAG_NO_HEAP_PTRS, GCFLAG_NO_YOUNG_PTRS}, 0, <<>>)
            EXCEPT !.fields = <<IF k < NumPrebuilt THEN PrebuiltBase + k + 1 ELSE NULL>>]
    ELSE Obj(T_A, {GCFLAG_NO_HEAP_PTRS, GCFLAG_NO_YOUNG_PTRS}, 1, <<>>)

\* a root is loaded with the address of a prebuilt object
loadprebuilt(r, k) ==
    /\ pc = "run"
    /\ roots[r] # PrebuiltBase + k
    /\ roots' = [roots EXCEPT ![r] = PrebuiltBase + k]
    /\ last' = Stored(St, "load", NULL, NULL, 0)
    /\ UNCHANGED <<mem, nursery_free, old_objects_pointing_to_young,
                   old_objects_with_cards_set, prebuilt_root_objects,
                   rawmalloced_objects, rawmalloced_total_size,
                   ac_all_objects, ac_total_memory_used,
                   objects_with_finalizers, run_finalizers,
                   young_objects_with_weakrefs,
                   old_objects_with_weakrefs, young_objects_shadows,
                   next_major_collection_threshold, min_heap_size,
                   max_heap_size, max_heap_size_already_raised,
                   finalizer_lock_count, debug_always_do_minor_collect,
                   errors, forw, recovered, arena_sizes, fixedsize0, jitvars,
                   pc, cont,
                   req, finalizing, allocs, stores>>

\* ------------------------------------------------------------------------
\* The initial state: after setup() and allocate_nursery()
\* ------------------------------------------------------------------------
\* the real objects are at the addresses 1..NumObjects, the JIT_VIRTUAL_REF
\* structures at the addresses above them
NumObjects == 2
MaxVrefs == 2
MaxResidualCalls == 2

\* no virtual ref yet
VrefOff ==
    /\ vrefs = <<>>
    /\ virtualref_boxes = <<>>
    /\ rescall = FALSE
    /\ vlast = [op |-> "none", vref |-> NULL, result |-> NULL, raised |-> "none",
                failed |-> {}, escaped |-> {}, forced |-> {},
                returned |-> [k \in 1..MaxVrefs |-> NULL]]

\* the meta-interpreter is not running
JitOff ==
    /\ VrefOff
    /\ framestack = <<>>
    /\ free_frames_list = <<>>
    /\ history = <<>>
    /\ in_recursion = 0
    /\ resumekey = [trace |-> 0, guard |-> 0, original_greenkey |-> <<>>,
                    redkey |-> <<>>]
    /\ compiled = <<>>
    /\ nboxes = 0
    /\ mode = "off"
    /\ jlast = [op |-> "none"]
    /\ failures = 0
    /\ staticdata = [portal_code |-> "none", num_green_args |-> 0,
                     result_type |-> "void", trace_limit |-> 0]
    /\ current_merge_points = <<>>
    /\ seen_can_enter_jit = FALSE
    /\ running = 0
    /\ nframes = 0
    /\ last_exc_value_box = [const |-> FALSE, type |-> "v", value |-> 0, id |-> 0]

\* the collector: 'maxheap' is the value of PYPY_GC_MAX (0: no limit)
GcStartTyped(nallocs, nstores, maxheap, size0) ==
    /\ mem = [a \in PrebuiltObjects |-> Prebuilt(a - PrebuiltBase)]
    /\ roots = [r \in 1..NumRoots |-> NULL]
    /\ nursery_free = nursery
    /\ old_objects_pointing_to_young = <<>>
    /\ old_objects_with_cards_set = <<>>
    /\ prebuilt_root_objects = <<>>
    /\ rawmalloced_objects = <<>>
    /\ rawmalloced_total_size = 0
    /\ ac_all_objects = <<>>
    /\ ac_total_memory_used = 0
    /\ objects_with_finalizers = <<>>
    /\ run_finalizers = <<>>
    /\ young_objects_with_weakrefs = <<>>
    /\ old_objects_with_weakrefs = <<>>
    /\ young_objects_shadows = <<>>
    /\ min_heap_size = Max(0, nursery_size * major_collection_threshold)
    /\ next_major_collection_threshold =
           (IF maxheap > 0 /\ Max(0, nursery_size * major_collection_threshold) > maxheap
            THEN maxheap ELSE Max(0, nursery_size * major_collection_threshold))
    /\ max_heap_size = maxheap
    /\ max_heap_size_already_raised = FALSE
    /\ finalizer_lock_count = 0
    /\ debug_always_do_minor_collect = FALSE
    /\ errors = {}
    /\ forw = <<>>
    /\ recovered = FALSE
    /\ arena_sizes = <<>>
    /\ fixedsize0 = size0
    /\ pc = "run"
    /\ cont = NoOp
    /\ req = NoOp
    /\ finalizing = NULL
    /\ last = Done(NoOp, St, "init")
    /\ allocs = nallocs
    /\ stores = nstores

\* the type table has a one-word entry at type id 0
GcStart(nallocs, nstores, maxheap) == GcStartTyped(nallocs, nstores, maxheap, WORD)

StartWith(nallocs, nstores, maxheap) ==
    GcStart(nallocs, nstores, maxheap) /\ JitOff

Start(nallocs, nstores) == StartWith(nallocs, nstores, 0)

\* ------------------------------------------------------------------------
\* Allocation: every malloc entry point and every kind of request
\* ------------------------------------------------------------------------
FixedRequests == {T_S, T_F, T_B}
VarRequests == {<<T_A, 1>>, <<T_A, 2>>, <<T_V, 3>>, <<T_V, 4>>}
NonmovableRequests == {<<T_S, 0>>, <<T_A, 1>>}

InitAlloc == Start(WideAllocs, 0)

NextAlloc ==
    \/ \E r \in 1..NumRoots, t \in FixedRequests : malloc_fixedsize_clear(r, t, 0)
    \/ \E r \in 1..NumRoots, q \in VarRequests : malloc_varsize_clear(r, q[1], q[2])
    \/ \E r \in 1..NumRoots, q \in NonmovableRequests :
           malloc_nonmovable(r, q[1], q[2])
    \/ collect_and_reserve
    \/ finalizer_return

SpecAlloc == InitAlloc /\ [][NextAlloc]_vars

\* ------------------------------------------------------------------------
\* Reservation of nursery memory: longer runs of fewer kinds of requests,
\* with finalizers that allocate
\* ------------------------------------------------------------------------
InitReserve == Start(MaxAllocs, 0)

NextReserve ==
    \/ \E r \in 1..NumRoots, t \in FixedRequests : malloc_fixedsize_clear(r, t, 0)
    \/ \E r \in 1..NumRoots : malloc_varsize_clear(r, T_A, 1)
    \/ collect_and_reserve
    \/ finalizer_return

SpecReserve == InitReserve /\ [][NextReserve]_vars

NoErrors == errors = {}

\* ------------------------------------------------------------------------
\* Properties of the nursery allocator
\* ------------------------------------------------------------------------
\* C1, as stated: at all points of execution
\* nursery <= nursery_free <= nursery_top.
NurseryFreeAlwaysWithinNursery ==
    nursery <= nursery_free /\ nursery_free <= nursery_top

\* C1, amended: nursery <= nursery_free <= nursery_top holds at every point
\* except between the bump of nursery_free by an allocation that does not fit
\* and the minor collection of the collect_and_reserve it calls next; there
\* nursery_top < nursery_free <= nursery_top + nonlarge_gcptrs_max + 1, which
\* is inside the memory allocate_nursery obtained.
NurseryFreeWithinNurseryOutsideOverflow ==
    /\ pc # "overflow" => (nursery <= nursery_free /\ nursery_free <= nursery_top)
    /\ pc = "overflow" => /\ nursery_top < nursery_free
                          /\ nursery_free <= nursery_top + nonlarge_gcptrs_max + 1
                          /\ nursery_free = nursery_top + req.totalsize
                               - (nursery_top - last.result)

\* an allocation went through collect_and_reserve and got its memory after a
\* major collection whose finalizers had allocated in the nursery
ReservedAfterOverflow ==
    /\ pc = "run"
    /\ last.kind = "reserve"
    /\ last.outcome = "done"
    /\ last.major
    /\ last.freem > nursery
    /\ nursery_free = last.result + last.totalsize

\* C2: collect_and_reserve runs a minor collection first; then a major
\* collection exactly when the memory used is above the threshold; then a
\* second minor collection exactly when the major collection ran and
\* nursery_free + totalsize > nursery_top after it; and the memory it returns
\* ends at or below nursery_top.
CollectAndReserveSequence ==
    /\ "nursery overflow" \notin errors
    /\ (last.kind = "reserve" /\ last.outcome = "finalizer")
          => last.log = <<"minor", "major">> /\ last.used > last.thr
    /\ (last.kind = "reserve" /\ last.outcome = "done" /\ last.log # <<>>)
          => /\ last.log[1] = "minor"
             /\ last.log \in {<<"minor">>, <<"minor", "major">>,
                              <<"minor", "major", "minor">>}
             /\ (Len(last.log) >= 2) <=> (last.used > last.thr)
             /\ (Len(last.log) = 3) <=>
                    (last.used > last.thr /\ last.freem + last.totalsize > nursery_top)
             /\ last.result + last.totalsize <= nursery_top
             /\ last.result = (IF Len(last.log) = 2 THEN last.freem ELSE nursery)

\* collect_and_reserve ran the second minor collection
SecondMinorCollection ==
    /\ last.kind = "reserve"
    /\ last.outcome = "done"
    /\ last.log = <<"minor", "major", "minor">>

\* C8: an object with a finalizer, or larger than the ceiling of its kind, or
\* asked for as nonmovable, is allocated outside the nursery with
\* GCFLAG_NO_YOUNG_PTRS (and registered if it has a finalizer); every other
\* object is allocated in the nursery with no flag; no object in the nursery
\* has GCFLAG_NO_YOUNG_PTRS.
Ceiling(typeid) ==
    IF is_varsize(typeid) /\ has_gcptr_in_varsize(typeid)
    THEN nonlarge_gcptrs_max ELSE nonlarge_max

BypassesNursery(l) ==
    \/ l.op = "malloc_fixedsize_clear" /\ getfinalizer(l.typeid)
    \/ size_gc_header + fixed_size(l.typeid)
          + varsize_item_sizes(l.typeid) * l.length > Ceiling(l.typeid)
    \/ l.op = "malloc_nonmovable"

AllocationPlacement ==
    /\ \A a \in DOMAIN mem :
           is_in_nursery(a) => GCFLAG_NO_YOUNG_PTRS \notin mem[a].flags
    /\ (last.kind \in {"reserve", "external"} /\ last.outcome = "done") =>
          /\ last.result \in DOMAIN mem
          /\ roots[last.root] = last.result
          /\ mem[last.result].typeid = last.typeid
          /\ IF BypassesNursery(last)
             THEN /\ ~is_in_nursery(last.result)
                  /\ last.kind = "external"
                  /\ GCFLAG_NO_YOUNG_PTRS \in mem[last.result].flags
                  /\ (last.op = "malloc_fixedsize_clear" /\ getfinalizer(last.typeid))
                        => Top(objects_with_finalizers) = last.result
             ELSE /\ is_in_nursery(last.result)
                  /\ last.kind = "reserve"
                  /\ mem[last.result].flags = {}

\* an array of GC pointers above nonlarge_gcptrs_max was allocated, and an
\* array of bytes that is above nonlarge_max is in the nursery
LargeArrayOutsideNursery ==
    /\ last.op = "malloc_varsize_clear"
    /\ last.outcome = "done"
    /\ last.typeid = T_A
    /\ last.length = 2
    /\ ~is_in_nursery(last.result)
    /\ \E a \in DOMAIN mem : is_in_nursery(a) /\ mem[a].typeid = T_V


\* ------------------------------------------------------------------------
\* Minor collections: stores through the write barrier, old and young
\* objects, arrays with card marking
\* ------------------------------------------------------------------------
MinorVarRequests == {<<T_A, 1>>, <<T_A, 3>>}

InitMinor == Start(MinorAllocs, MaxStores)

NextMinor ==
    \/ \E r \in 1..NumRoots : malloc_fixedsize_clear(r, T_S, 0)
    \/ \E r \in 1..NumRoots, q \in MinorVarRequests :
           malloc_varsize_clear(r, q[1], q[2])
    \/ collect_and_reserve
    \/ collect(0)
    \/ \E r \in 1..NumRoots, src \in 0..NumRoots : setfield(r, src)
    \/ \E r \in 1..NumRoots, i \in {0, 2}, src \in 1..NumRoots :
           setarrayitem(r, i, src)
    \/ \E r \in 1..NumRoots, dst \in 1..NumRoots : getfield(r, 1, dst)
    \/ \E r \in 1..NumRoots : id(r)

SpecMinor == InitMinor /\ [][NextMinor]_vars

\* ------------------------------------------------------------------------
\* The write barrier: stores into old, young and prebuilt objects
\* ------------------------------------------------------------------------
InitBarrier == Start(BarrierAllocs, MaxStores)

NextBarrier ==
    \/ \E r \in 1..NumRoots : malloc_fixedsize_clear(r, T_S, 0)
    \/ \E r \in 1..NumRoots, q \in MinorVarRequests :
           malloc_varsize_clear(r, q[1], q[2])
    \/ collect_and_reserve
    \/ collect(0)
    \/ \E r \in 1..NumRoots, src \in 0..NumRoots : setfield(r, src)
    \/ \E r \in 1..NumRoots, i \in {0, 2}, src \in 1..NumRoots :
           setarrayitem(r, i, src)
    \/ \E r \in 1..NumRoots, k \in 1..NumPrebuilt : loadprebuilt(r, k)

SpecBarrier == InitBarrier /\ [][NextBarrier]_vars


\* ------------------------------------------------------------------------
\* Properties of the write barrier
\* ------------------------------------------------------------------------
OldObjects == {a \in DOMAIN mem : ~is_in_nursery(a)}

\* the card marker bit that covers item number 'i' (from 1) of array 'H'
CardCovers(H, i) ==
    /\ GCFLAG_HAS_CARDS \in mem[H].flags
    /\ Bit(mem[H].cards[(((i - 1) \div (2 ^ card_page_shift)) \div 8) + 1],
           ((i - 1) \div (2 ^ card_page_shift)) % 8) = 1

Remembered(H, i) ==
    \/ H \in Range(old_objects_pointing_to_young)
    \/ H \in Range(old_objects_with_cards_set) /\ CardCovers(H, i)

\* C3: every store goes through write_barrier or write_barrier_from_array
\* (setfield, setarrayitem), and a minor collection starts from a state
\* between two operations.  In every such state, an object outside the
\* nursery that holds a pointer into the nursery is listed in
\* old_objects_pointing_to_young, or is listed in old_objects_with_cards_set
\* with the card bit set that covers the index of the pointer.
WriteBarrierCompleteness ==
    \A H \in OldObjects : \A i \in DOMAIN mem[H].fields :
        is_in_nursery(mem[H].fields[i]) => Remembered(H, i)

\* a prebuilt object is remembered for a young pointer by the list, and an
\* array with card markers by the second of its cards alone
CardAndListRemember ==
    /\ \E H \in PrebuiltObjects :
           /\ \E i \in DOMAIN mem[H].fields : is_in_nursery(mem[H].fields[i])
           /\ H \in Range(old_objects_pointing_to_young)
    /\ \E H \in OldObjects :
           /\ GCFLAG_HAS_CARDS \in mem[H].flags
           /\ mem[H].length = 3
           /\ is_in_nursery(mem[H].fields[3])
           /\ H \notin Range(old_objects_pointing_to_young)
           /\ CardCovers(H, 3) /\ ~CardCovers(H, 1)

\* C4: a step of setfield is write_barrier(newvalue, obj) and then the store
\* into the field.  On an object with NO_YOUNG_PTRS: a newvalue in the
\* nursery clears the flag and appends the object to
\* old_objects_pointing_to_young; any other newvalue leaves the flag and
\* the list as they are.  On an object without NO_YOUNG_PTRS the barrier
\* changes nothing: the store is the only change of the step.
WriteBarrierEffect ==
    [][last'.op = "setfield" =>
         IF GCFLAG_NO_YOUNG_PTRS \in mem[last'.obj].flags
         THEN IF is_in_nursery(last'.newvalue)
              THEN /\ GCFLAG_NO_YOUNG_PTRS \notin mem'[last'.obj].flags
                   /\ old_objects_pointing_to_young' =
                          Append(old_objects_pointing_to_young, last'.obj)
              ELSE /\ GCFLAG_NO_YOUNG_PTRS \in mem'[last'.obj].flags
                   /\ UNCHANGED old_objects_pointing_to_young
         ELSE /\ mem' = [mem EXCEPT ![last'.obj].fields[1] = last'.newvalue]
              /\ UNCHANGED <<old_objects_pointing_to_young,
                             old_objects_with_cards_set, prebuilt_root_objects>>
    ]_vars

\* a young pointer has just been stored into an old object that had the flag
YoungPointerStored ==
    /\ last.op = "setfield"
    /\ is_in_nursery(last.newvalue)
    /\ ~is_in_nursery(last.obj)
    /\ old_objects_pointing_to_young # <<>>
    /\ Top(old_objects_pointing_to_young) = last.obj
    /\ GCFLAG_NO_YOUNG_PTRS \notin mem[last.obj].flags


\* ------------------------------------------------------------------------
\* Properties of the minor collection
\* ------------------------------------------------------------------------
\* the step is an operation that ran exactly one minor collection
MinorStep == last'.log = <<"minor">> /\ finalizing' = finalizing

\* the root that receives the result of the allocation of this step
Overwritten(r) == last'.op # "collect" /\ r = last'.root

\* where the collection of this step has moved the object at address 'a'
NewAddr(a) == IF is_in_nursery(a) /\ a \in DOMAIN forw' THEN forw'[a] ELSE a

\* The places that reference 'O' before the step and outlive it: roots,
\* fields of objects outside the nursery, fields of moved nursery objects.
LiveSlots(O) ==
    {<<"root", r, 0>> : r \in {x \in 1..NumRoots : roots[x] = O /\ ~Overwritten(x)}}
    \cup {s \in UNION {{<<"field", H, i>> : i \in 1..gcptrs(St, H)} :
                          H \in {a \in DOMAIN mem :
                                   is_in_nursery(a) => a \in DOMAIN forw'}} :
            mem[s[2]].fields[s[3]] = O}

\* what such a place holds after the step
SlotAfter(s) ==
    IF s[1] = "root" THEN roots'[s[2]] ELSE mem'[NewAddr(s[2])].fields[s[3]]

\* the object at N after the step is the object at O before it, field for
\* field, a pointer to a moved object being the pointer to where it is now
SameContents(O, N) ==
    /\ mem'[N].typeid = mem[O].typeid
    /\ mem'[N].length = mem[O].length
    /\ DOMAIN mem'[N].fields = DOMAIN mem[O].fields
    /\ \A i \in DOMAIN mem[O].fields : mem'[N].fields[i] = NewAddr(mem[O].fields[i])

\* the nursery objects that 'A' references
YoungRefs(A) ==
    {mem[A].fields[i] : i \in 1..gcptrs(St, A)} \cap NurseryObjects(St)

\* the nursery objects referenced from the roots and from the objects outside
\* the nursery, and those reachable from them along chains of nursery objects
YoungRoots ==
    ({roots[r] : r \in 1..NumRoots} \cap NurseryObjects(St))
    \cup UNION {YoungRefs(H) : H \in OldObjects}

RECURSIVE YoungClosure(_)
YoungClosure(S) ==
    IF \A A \in S : YoungRefs(A) \subseteq S THEN S
    ELSE YoungClosure(S \cup UNION {YoungRefs(A) : A \in S})

\* memory outside the nursery that the step has filled with an object
Filled ==
    {N \in DOMAIN mem' :
        /\ ~is_in_nursery(N)
        /\ mem'[N].typeid # 0
        /\ N \in DOMAIN mem => mem[N].typeid = 0}

\* C5: across a minor collection, all the roots and fields that referenced
\* one nursery object O (two or more of them) hold one and the same address
\* afterwards; it is outside the nursery, it is memory that held no object
\* before, the object there has the contents of O field for field, and as
\* many objects have appeared outside the nursery as nursery objects were
\* referenced (each is copied once).
Forwarding ==
    [][MinorStep =>
         /\ \A O \in NurseryObjects(St) :
                Cardinality(LiveSlots(O)) >= 2 =>
                    \E N \in Filled :
                        /\ \A s \in LiveSlots(O) : SlotAfter(s) = N
                        /\ SameContents(O, N)
         /\ Cardinality(Filled) = Cardinality(YoungClosure(YoungRoots))
    ]_vars

\* after a minor collection two roots and a field hold the new address of
\* one moved object
SharedObjectMoved ==
    /\ last.log = <<"minor">>
    /\ roots[1] \in Range(forw)
    /\ roots[2] = roots[1]
    /\ \E H \in DOMAIN mem : \E i \in DOMAIN mem[H].fields :
           mem[H].fields[i] = roots[1]

\* C6: after an operation that ran a minor collection, no field of any
\* object holds an address inside the nursery, and no root does except the
\* root that received the object the operation has just allocated; every
\* nursery object that was reachable along a chain of nursery objects is now
\* outside the nursery, each copy referencing the copies of what the
\* original referenced.
NoNurseryPointersAfterMinor ==
    [][MinorStep =>
         /\ \A r \in 1..NumRoots :
                is_in_nursery(roots'[r]) =>
                    Overwritten(r) /\ roots'[r] = last'.result
         /\ \A H \in DOMAIN mem' : \A i \in DOMAIN mem'[H].fields :
                ~is_in_nursery(mem'[H].fields[i])
         /\ \A A \in YoungClosure(YoungRoots) :
                /\ A \in DOMAIN forw'
                /\ forw'[A] \in DOMAIN mem'
                /\ ~is_in_nursery(forw'[A])
                /\ SameContents(A, forw'[A])
    ]_vars

\* a root references a moved object A, whose field references a moved
\* object B that no root references
YoungChainMoved ==
    /\ last.log = <<"minor">>
    /\ \E r \in 1..NumRoots :
           /\ roots[r] \in Range(forw)
           /\ mem[roots[r]].fields # <<>>
           /\ mem[roots[r]].fields[1] \in Range(forw) \ {roots[r]}
           /\ \A x \in 1..NumRoots : roots[x] # mem[roots[r]].fields[1]

\* C7: when an operation that ran a minor collection returns, the lists
\* old_objects_pointing_to_young and old_objects_with_cards_set are empty,
\* young_objects_shadows is empty, no object has CARDS_SET or a card bit
\* set, and nursery_free is the start of the nursery (after collect), or
\* the start of the nursery plus the size reserved by the allocation that
\* ran the collection.
MinorCollectionDrains ==
    last.log = <<"minor">> =>
        /\ old_objects_pointing_to_young = <<>>
        /\ old_objects_with_cards_set = <<>>
        /\ young_objects_shadows = <<>>
        /\ \A H \in DOMAIN mem :
               /\ GCFLAG_CARDS_SET \notin mem[H].flags
               /\ \A j \in DOMAIN mem[H].cards : mem[H].cards[j] = 0
        /\ nursery_free = IF last.op = "collect" THEN nursery
                          ELSE nursery + last.totalsize

\* collect(0) has returned; an array with card markers references a moved
\* object from its second card, and an object that was outside the nursery
\* before references a moved object too
CardsAndListDrained ==
    /\ last.log = <<"minor">>
    /\ last.op = "collect"
    /\ \E H \in OldObjects :
           /\ GCFLAG_HAS_CARDS \in mem[H].flags
           /\ mem[H].length = 3
           /\ mem[H].fields[3] \in Range(forw)
    /\ \E H \in OldObjects \ Range(forw) :
           /\ GCFLAG_HAS_CARDS \notin mem[H].flags
           /\ mem[H].fields # <<>>
           /\ mem[H].fields[1] \in Range(forw)


\* ------------------------------------------------------------------------
\* Major collections: objects with finalizers, prebuilt objects, roots that
\* go away
\* ------------------------------------------------------------------------
InitMajor == Start(MajorAllocs, MaxStores)

NextMajor ==
    \/ \E r \in 1..NumRoots, t \in {T_S, T_F, T_B} : malloc_fixedsize_clear(r, t, 0)
    \/ collect_and_reserve
    \/ collect(1)
    \/ finalizer_return
    \/ \E r \in 1..NumRoots, src \in 1..NumRoots : setfield(r, src)
    \/ loadprebuilt(NumRoots, 1)
    \/ droproot(1)

SpecMajor == InitMajor /\ [][NextMajor]_vars


\* ------------------------------------------------------------------------
\* Properties of the major collection
\* ------------------------------------------------------------------------
\* the objects that 'a' references by its GC pointers
Refs(a) == {mem[a].fields[i] : i \in 1..gcptrs(St, a)} \ {NULL}

RECURSIVE Reach(_)
Reach(S) ==
    IF \A a \in S : Refs(a) \subseteq S THEN S
    ELSE Reach(S \cup UNION {Refs(a) : a \in S})

\* prebuilt_root_objects, the stack roots and the queue run_finalizers
HardRoots ==
    Range(prebuilt_root_objects) \cup ({roots[r] : r \in 1..NumRoots} \ {NULL})
    \cup Range(run_finalizers)

\* the step is collect(1): a minor collection, then the major collection,
\* and nothing allocated afterwards (not the step in which collect(1)
\* returns once the finalizers have run)
MajorStep ==
    /\ last'.op = "collect"
    /\ last'.log = <<"minor", "major">>
    /\ last'.outcome = "finalizer" \/ finalizing' = finalizing

\* the object at 'a' before the step is still there after it (at the
\* address the minor collection gave it, for a nursery object)
Survives(a) ==
    IF is_in_nursery(a) THEN a \in DOMAIN forw' /\ forw'[a] \in DOMAIN mem'
    ELSE a \in DOMAIN mem'

\* C9: across collect(1), every object reachable from prebuilt_root_objects,
\* the stack roots or run_finalizers is still there, and every object
\* outside the nursery that is not prebuilt and is reachable neither from
\* those nor from an object in objects_with_finalizers is freed.
MajorCollectionFreesUnreachable ==
    [][MajorStep =>
         /\ \A a \in Reach(HardRoots) : Survives(a)
         /\ \A a \in OldObjects \ PrebuiltObjects :
                a \notin Reach(HardRoots \cup Range(objects_with_finalizers))
                    => a \notin DOMAIN mem'
    ]_vars

\* collect(1) has freed an object and has kept an object that a root
\* reaches through another object, and an object with a finalizer
FreedAndKept ==
    /\ last.op = "collect"
    /\ last.log = <<"minor", "major">>
    /\ last.freed # {}
    /\ objects_with_finalizers # <<>>
    /\ \E r \in 1..NumRoots :
           /\ roots[r] \in DOMAIN mem \ PrebuiltObjects
           /\ mem[roots[r]].fields # <<>>
           /\ mem[roots[r]].fields[1] \in DOMAIN mem \ (PrebuiltObjects \cup {roots[r]})

\* C10: after an operation that ran a major collection, no object, prebuilt
\* or not, has GCFLAG_VISITED or GCFLAG_FINALIZATION_ORDERING.
NoMarkLeftAfterMajor ==
    "major" \in Range(last.log) =>
        \A a \in DOMAIN mem :
            mem[a].flags \cap {GCFLAG_VISITED, GCFLAG_FINALIZATION_ORDERING} = {}

\* the major collection has queued an object with a finalizer that references
\* a prebuilt object with NO_HEAP_PTRS, and its finalizer is running
FinalizerReferencesPrebuilt ==
    /\ "major" \in Range(last.log)
    /\ last.outcome = "finalizer"
    /\ finalizing \in DOMAIN mem
    /\ mem[finalizing].fields[1] \in PrebuiltObjects
    /\ GCFLAG_NO_HEAP_PTRS \in mem[mem[finalizing].fields[1]].flags


\* ------------------------------------------------------------------------
\* Properties of the order of finalizers
\* ------------------------------------------------------------------------
\* the step runs a major collection (and is not the step in which the
\* operation returns once the finalizers of its collection have run)
MajorCollectionStep ==
    /\ "major" \in Range(last'.log)
    /\ last'.outcome = "finalizer" \/ finalizing' = finalizing

\* the pairs <<A, B>> of registered objects with finalizers, both unreachable
\* from the roots, A reachable from B
DependentPairs ==
    {p \in Range(objects_with_finalizers) \X Range(objects_with_finalizers) :
        /\ p[1] # p[2]
        /\ p[1] \in Reach({p[2]})
        /\ {p[1], p[2]} \cap Reach(HardRoots) = {}}

\* the major collection of this step keeps 'A' registered, alive, and out of
\* the queue of finalizers to run
StaysRegistered(A) ==
    /\ A \in Range(objects_with_finalizers')
    /\ A \notin Range(run_finalizers')
    /\ last'.outcome = "finalizer" => finalizing' # A
    /\ A \in DOMAIN mem'

\* the finalizers the major collection of this step leaves to be called, in
\* the order of the calls: the one it has called already, then the queue
QueuedAfter ==
    (IF last'.outcome = "finalizer" THEN <<finalizing'>> ELSE <<>>) \o run_finalizers'

FinalizerCalled ==
    /\ finalizing # NULL
    /\ last.outcome = "finalizer" \/ last.op = "finalizer"

\* the objects whose finalizer is still to be called
AwaitingFinalizer == Range(objects_with_finalizers) \cup Range(run_finalizers)

InitWeak == Start(WeakAllocs, MaxStores)

NextWeak ==
    \/ \E r \in 1..NumRoots, t \in {T_S, T_F} : malloc_fixedsize_clear(r, t, 0)
    \/ \E r \in 1..NumRoots, target \in 1..NumRoots :
           roots[target] # NULL /\ malloc_fixedsize_clear(r, T_W, target)
    \/ collect_and_reserve
    \/ \E gen \in {0, 1} : collect(gen)
    \/ finalizer_return
    \/ \E r \in 1..NumRoots, src \in 1..NumRoots : setfield(r, src)
    \/ \E r \in 1..NumRoots : droproot(r)

SpecWeak == InitWeak /\ [][NextWeak]_vars

\* the weak references in memory
WeakRefs == {a \in DOMAIN mem : contains_weakptr(mem[a].typeid)}

\* C13: after an operation that ran a major collection, the referent field
\* of every weak reference still allocated is NULL or the address of an
\* object that is still allocated and was not freed by the collection.
WeakrefSweep ==
    "major" \in Range(last.log) =>
        \A w \in WeakRefs :
            \/ mem[w].fields[1] = NULL
            \/ mem[w].fields[1] \in DOMAIN mem \ last.freed



\* ------------------------------------------------------------------------
\* Properties of id()
\* ------------------------------------------------------------------------
\* C14: id() of an object outside the nursery is its address, which no
\* collection changes.  id() of a nursery object is the address of its
\* shadow, outside the nursery: the first call allocates it in memory that
\* held nothing and sets HAS_SHADOW, a repeated call returns the same address
\* and allocates nothing.  A minor collection moves every surviving object
\* that has a shadow to exactly that address, HAS_SHADOW cleared, so that the
\* roots that referenced it hold the value id() returned before.
IdentityStable ==
    [][/\ (last'.op = "id" /\ ~is_in_nursery(last'.obj)) =>
              last'.result = last'.obj /\ UNCHANGED <<mem, young_objects_shadows>>
       /\ (last'.op = "id" /\ is_in_nursery(last'.obj)) =>
              /\ ~is_in_nursery(last'.result)
              /\ last'.obj \in DOMAIN young_objects_shadows'
              /\ young_objects_shadows'[last'.obj] = last'.result
              /\ GCFLAG_HAS_SHADOW \in mem'[last'.obj].flags
              /\ IF last'.obj \in DOMAIN young_objects_shadows
                 THEN /\ last'.result = young_objects_shadows[last'.obj]
                      /\ UNCHANGED <<mem, young_objects_shadows, ac_all_objects,
                                     rawmalloced_objects>>
                 ELSE /\ last'.result \notin DOMAIN mem
                      /\ \A o \in DOMAIN young_objects_shadows :
                             young_objects_shadows'[o] = young_objects_shadows[o]
                               /\ young_objects_shadows[o] # last'.result
       /\ MinorStep =>
              \A O \in DOMAIN young_objects_shadows :
                  /\ O \in DOMAIN forw' =>
                         /\ forw'[O] = young_objects_shadows[O]
                         /\ GCFLAG_HAS_SHADOW \notin mem'[forw'[O]].flags
                         /\ SameContents(O, forw'[O])
                  /\ \A r \in 1..NumRoots :
                         (roots[r] = O /\ ~Overwritten(r)) =>
                             roots'[r] = young_objects_shadows[O]
      ]_vars

\* a minor collection has moved an object into the shadow that id() had
\* allocated for it, and a root references it there
MovedIntoShadow ==
    /\ last.log = <<"minor">>
    /\ \E O \in last.shadowed :
           /\ O \in DOMAIN forw
           /\ \E r \in 1..NumRoots : roots[r] = forw[O]
           /\ GCFLAG_HAS_SHADOW \notin mem[forw[O]].flags



\* ------------------------------------------------------------------------
\* A limit on the heap size (PYPY_GC_MAX): large arrays held by the roots
\* ------------------------------------------------------------------------
HeapLimits == {6 * WORD, 10 * WORD}

InitHeap == \E maxheap \in HeapLimits : StartWith(HeapAllocs, 0, maxheap)

NextHeap ==
    \/ \E r \in 1..NumRoots : malloc_varsize_clear(r, T_A, 3)
    \/ \E r \in 1..NumRoots : malloc_fixedsize_clear(r, T_S, 0)
    \/ collect_and_reserve
    \/ collect(1)
    \/ \E r \in 1..NumRoots : droproot(r)

SpecHeap == InitHeap /\ [][NextHeap]_vars

\* the major collection of this step has ended over the limit
OverLimit == last'.outcome \in {"MemoryError", "fatal"}

\* the size the operation of this step asks major_collection to reserve
Reserving == IF last'.kind = "external" THEN last'.totalsize ELSE 0

\* C15, as stated: the program is aborted only when the major collection
\* before this one had ended over the limit too (a second consecutive
\* occurrence).
FatalOnlyWhenConsecutive == last.outcome = "fatal" => ~recovered

\* C15, amended: a major collection ends over the limit when the threshold
\* is bounded by max_heap_size and the memory used plus the reserved size is
\* at or above it.  The first time this happens MemoryError is raised and
\* max_heap_size_already_raised is set; it is never reset.  The program is
\* aborted the next time it happens, whatever number of major collections
\* have ended within the limit in between, and only then.
OutOfMemoryLatch ==
    [][/\ max_heap_size_already_raised => max_heap_size_already_raised'
       /\ pc' = "aborted" <=> last'.outcome = "fatal"
       /\ OverLimit =>
              /\ "major" \in Range(last'.log)
              /\ last'.bounded
              /\ next_major_collection_threshold' = max_heap_size
              /\ ac_total_memory_used' + rawmalloced_total_size' + Reserving
                     >= next_major_collection_threshold'
              /\ last'.outcome = "fatal" <=> max_heap_size_already_raised
              /\ last'.outcome = "MemoryError" =>
                     max_heap_size_already_raised' /\ pc' = "run"
       /\ (~OverLimit /\ last'.op = "collect") =>
              /\ UNCHANGED max_heap_size_already_raised
              /\ ~(last'.bounded /\ ac_total_memory_used' + rawmalloced_total_size'
                                      >= next_major_collection_threshold')
      ]_vars

\* the program is aborted at the second major collection that ended over
\* the limit, after one that ended within it
AbortedAfterRecovery ==
    /\ pc = "aborted"
    /\ last.outcome = "fatal"
    /\ recovered



\* ------------------------------------------------------------------------
\* Remembering old objects: card marking, assume_young_pointers, prebuilt
\* objects
\* ------------------------------------------------------------------------
InitCards == Start(CardAllocs, MaxStores)

NextCards ==
    \/ \E r \in 1..NumRoots : malloc_fixedsize_clear(r, T_S, 0)
    \/ \E r \in 1..NumRoots, q \in MinorVarRequests :
           malloc_varsize_clear(r, q[1], q[2])
    \/ collect_and_reserve
    \/ collect(0)
    \/ \E r \in 1..NumRoots, src \in 0..NumRoots : setfield(r, src)
    \/ \E r \in 1..NumRoots, i \in {0, 2}, src \in 0..NumRoots :
           setarrayitem(r, i, src)
    \/ \E r \in 1..NumRoots : assume_young(r)
    \/ \E r \in 1..NumRoots, k \in 1..NumPrebuilt : loadprebuilt(r, k)

SpecCards == InitCards /\ [][NextCards]_vars

\* the numbers of the cards of array 'H' whose bit is set in memory 'm'
CardsOf(m, H) ==
    {c \in 0..(8 * Len(m[H].cards) - 1) :
         Bit(m[H].cards[(c \div 8) + 1], c % 8) = 1}

\* the interval of indices of card 'c', clipped to the length of array 'H'
CardInterval(H, c) ==
    <<H, c * card_page_indices,
      Min((c + 1) * card_page_indices, mem[H].length)>>

\* the intervals of the set cards of the arrays in 'S'
SetCardIntervals(S) ==
    UNION {{CardInterval(H, c) : c \in CardsOf(mem, H)} : H \in S}

Occurrences(s, x) == Cardinality({j \in DOMAIN s : s[j] = x})

\* the step is write_barrier_from_array and the store, on an array outside
\* the nursery that has card markers
ArrayBarrierStep ==
    /\ last'.op = "setarrayitem"
    /\ ~is_in_nursery(last'.obj)
    /\ GCFLAG_HAS_CARDS \in mem[last'.obj].flags

\* after the step the card of the written index is set and the array is
\* listed once
CardSetAndListedOnce ==
    /\ (last'.index \div (2 ^ card_page_shift)) \in CardsOf(mem', last'.obj)
    /\ Occurrences(old_objects_with_cards_set', last'.obj) = 1

\* after the step no array has a card bit or CARDS_SET
CardsCleared ==
    \A H \in DOMAIN mem' :
        /\ GCFLAG_CARDS_SET \notin mem'[H].flags
        /\ \A j \in DOMAIN mem'[H].cards : mem'[H].cards[j] = 0

\* C16, as stated: write_barrier_from_array on an old array with HAS_CARDS
\* sets the card bit of the index and lists the array in
\* old_objects_with_cards_set exactly once; the next minor collection traces,
\* for the listed arrays, exactly the intervals of their set cards, clipped
\* to the length, and leaves all card bits and CARDS_SET cleared.
CardMarking ==
    [][/\ ArrayBarrierStep => CardSetAndListedOnce
       /\ MinorStep =>
              /\ last'.partial = SetCardIntervals(Range(old_objects_with_cards_set))
              /\ CardsCleared
    ]_vars

\* C16, amended: the barrier acts on an array that still has NO_YOUNG_PTRS.
\* On such an array it sets the card bit of the index, whatever the value
\* written, and lists the array exactly once.  On an array that has lost
\* NO_YOUNG_PTRS (assume_young_pointers) it changes nothing, and the array
\* is in old_objects_pointing_to_young.  The next minor collection traces
\* exactly the clipped intervals of the set cards of the listed arrays that
\* still have NO_YOUNG_PTRS, and no interval of the others; it leaves all
\* card bits and CARDS_SET cleared.
CardMarkingWithFlag ==
    [][/\ ArrayBarrierStep =>
              IF GCFLAG_NO_YOUNG_PTRS \in mem[last'.obj].flags
              THEN CardSetAndListedOnce
              ELSE /\ mem' = [mem EXCEPT ![last'.obj].fields[last'.index + 1] =
                                             last'.newvalue]
                   /\ UNCHANGED <<old_objects_with_cards_set,
                                  old_objects_pointing_to_young>>
                   /\ last'.obj \in Range(old_objects_pointing_to_young)
       /\ MinorStep =>
              /\ last'.partial =
                     SetCardIntervals({H \in Range(old_objects_with_cards_set) :
                                          GCFLAG_NO_YOUNG_PTRS \in mem[H].flags})
              /\ CardsCleared
    ]_vars

\* a minor collection has traced the second card of an array of 3 items,
\* clipped to the length, and not the first
ClippedCardTraced ==
    /\ last.log = <<"minor">>
    /\ \E H \in OldObjects :
           /\ <<H, card_page_indices, 3>> \in last.partial
           /\ <<H, 0, card_page_indices>> \notin last.partial


\* the step is write_barrier (or write_barrier_from_array) and the store, on
\* a prebuilt object that still has NO_HEAP_PTRS
FirstWriteToPrebuilt ==
    /\ last'.op \in {"setfield", "setarrayitem"}
    /\ last'.obj \in PrebuiltObjects
    /\ GCFLAG_NO_HEAP_PTRS \in mem[last'.obj].flags

\* C17: the first write_barrier on a prebuilt object, one that still has
\* NO_HEAP_PTRS, clears the flag and appends the object to
\* prebuilt_root_objects, whatever the value written (NULL, a prebuilt
\* object, an old or a young object).  In every state a prebuilt object is
\* in prebuilt_root_objects exactly when its NO_HEAP_PTRS flag is clear, and
\* it is there at most once.
PrebuiltRegistration ==
    /\ [](\A P \in PrebuiltObjects :
            /\ P \in Range(prebuilt_root_objects)
                   <=> GCFLAG_NO_HEAP_PTRS \notin mem[P].flags
            /\ Occurrences(prebuilt_root_objects, P) <= 1)
    /\ [][FirstWriteToPrebuilt =>
              /\ GCFLAG_NO_HEAP_PTRS \notin mem'[last'.obj].flags
              /\ prebuilt_root_objects' = Append(prebuilt_root_objects, last'.obj)
       ]_vars

\* NULL has just been written into a prebuilt object for the first time: the
\* object is registered and keeps NO_YOUNG_PTRS; an earlier prebuilt object
\* was registered by a write of a prebuilt object or by
\* assume_young_pointers
PrebuiltRegisteredByNull ==
    /\ last.op = "setfield"
    /\ last.obj \in PrebuiltObjects
    /\ last.newvalue = NULL
    /\ Len(prebuilt_root_objects) = 2
    /\ Top(prebuilt_root_objects) = last.obj
    /\ GCFLAG_NO_HEAP_PTRS \notin mem[last.obj].flags
    /\ GCFLAG_NO_YOUNG_PTRS \in mem[last.obj].flags



\* ------------------------------------------------------------------------
\* The meta-interpreter (pyjitpl.py): boxes and operations
\* ------------------------------------------------------------------------
\* An operand is a Const (compared by value) or a Box (compared by
\* identity, 'id'); 'None' stands for the absence of a box.
INT == "i"
REF == "r"
None == [const |-> FALSE, type |-> "v", value |-> 0, id |-> 0]
ConstInt(value) == [const |-> TRUE, type |-> INT, value |-> value, id |-> 0]
BoxInt(value, n) == [const |-> FALSE, type |-> INT, value |-> value, id |-> n]
BoxPtr(value, n) == [const |-> FALSE, type |-> REF, value |-> value, id |-> n]
ConstPtr(value) == [const |-> TRUE, type |-> REF, value |-> value, id |-> 0]

\* isinstance(box, Const), isinstance(box, Box)
IsConst(box) == box.const
IsBox(box) == box # None /\ ~box.const

\* box.constbox(): the Const of the same value
constbox(box) == [box EXCEPT !.const = TRUE, !.id = 0]

\* the operations that are always pure (rop._ALWAYS_PURE_FIRST .. _LAST)
ALWAYS_PURE == {"INT_ADD", "INT_SUB", "SAME_AS"}

\* an entry of the trace
ResOperation(opnum, args, result, descr) ==
    [opnum |-> opnum, args |-> args, result |-> result, descr |-> descr]

\* descr=None, and the resume descriptor of a guard before capture_resumedata
NoDescr == [guard_opnum |-> "none", frames |-> <<>>, original_greenkey |-> <<>>]
ResumeGuardDescr(opnum, original_greenkey) ==
    [guard_opnum |-> opnum, frames |-> <<>>, original_greenkey |-> original_greenkey]

\* compile.ResumeFromInterpDescr, and a guard of a trace as a resume key
ResumeFromInterpDescr(original_greenkey, redkey) ==
    [trace |-> 0, guard |-> 0, original_greenkey |-> original_greenkey,
     redkey |-> redkey]
ResumeKey(t, j, original_greenkey) ==
    [trace |-> t, guard |-> j, original_greenkey |-> original_greenkey,
     redkey |-> <<>>]

\* The meta-interpreter's fields as one record, for the operators below;
\* 'resbox', 'redboxes', 'exitvalue', 'raised' and 'failed' are locals of
\* the running step, 'attempts' lists its calls of the compiler and
\* 'switched' has the reason of its call of switch_to_blackhole.
MI == [framestack |-> framestack, free_frames_list |-> free_frames_list,
       history |-> history, in_recursion |-> in_recursion,
       resumekey |-> resumekey, compiled |-> compiled, nboxes |-> nboxes,
       mode |-> mode, current_merge_points |-> current_merge_points,
       seen_can_enter_jit |-> seen_can_enter_jit, running |-> running,
       nframes |-> nframes, last_exc_value_box |-> last_exc_value_box,
       resbox |-> None, redboxes |-> <<>>, attempts |-> <<>>, exitvalue |-> 0,
       switched |-> "none", raised |-> "none", failed |-> {}]

JitCommit(m) ==
    /\ framestack' = m.framestack
    /\ free_frames_list' = m.free_frames_list
    /\ history' = m.history
    /\ in_recursion' = m.in_recursion
    /\ resumekey' = m.resumekey
    /\ compiled' = m.compiled
    /\ nboxes' = m.nboxes
    /\ mode' = m.mode
    /\ current_merge_points' = m.current_merge_points
    /\ seen_can_enter_jit' = m.seen_can_enter_jit
    /\ running' = m.running
    /\ nframes' = m.nframes
    /\ last_exc_value_box' = m.last_exc_value_box
    /\ UNCHANGED <<gcvars, pc, cont, req, finalizing, last, allocs, stores,
                   staticdata, vrefs, virtualref_boxes, rescall, vlast>>

\* a failed assert of the meta-interpreter
JitFail(m, cond, label) == IF cond THEN m ELSE [m EXCEPT !.failed = @ \cup {label}]

\* ------------------------------------------------------------------------
\* Jitcodes: the bytecode of the two functions that are traced
\* ------------------------------------------------------------------------
\* staticdata.opcode_names: the number of an opcode is its place in the list
opcode_names == <<"int_add", "goto_if_not", "int_guard_value", "newstr",
                  "inline_call_ir_i", "int_return", "int_sub", "int_copy",
                  "goto", "can_enter_jit", "jit_merge_point", "raise",
                  "catch_exception">>
Opcode(name) == CHOOSE k \in DOMAIN opcode_names : opcode_names[k] = name

\* staticdata.opcode_descrs: descr number 0 is the jitcode of 'f', number 1
\* the jitcode of 'g', number 2 the jitcode of 'h'
opcode_descrs == <<"f", "g", "h">>
portal_code == staticdata.portal_code
num_green_args == staticdata.num_green_args

\* main(a, b):   0: i2 = inline_call f(i1, i0)
\*               8: goto_if_not i2, L15
\*              12: r0 = newstr(i2)
\*          L15 15: int_return i2
\* f(x, y):      0: i2 = int_add i0, i1
\*               4: i3 = int_add i0, i1
\*               8: int_guard_value i1
\*              10: goto_if_not i3, L18
\*              14: i2 = int_add i2, i255     (i255 is the constant 1)
\*          L18 18: int_return i2
\* calls(a, b):  0: i2 = inline_call f(i1, i0)
\*               8: i2 = inline_call g(i2, r255)   (r255 is a prebuilt exception)
\*              16: catch_exception L32
\*              19: i2 = inline_call h(i0, r255)
\*              27: catch_exception L34
\*              30: int_return i2
\*          L32 32: int_return i0
\*          L34 34: i2 = inline_call g(i0, r255)
\*              42: int_return i2
\* g(x, e):      0: int_guard_value i0
\*               2: goto_if_not i0, L8
\*               6: int_return i0
\*           L8  8: raise r0
\*              10: catch_exception L6        (never executed)
\* h(x, e):      0: i0 = inline_call g(i0, r0)
\*               8: catch_exception L13
\*              11: int_return i0
\*          L13 13: i0 = inline_call g(i0, r0)
\*              21: int_return i0
\* loop(a, b, c), a green:
\*           L0  0: jit_merge_point [i0] [] [], [i1, i2] [] []
\*              10: goto_if_not i1, L39
\*              14: i1 = int_sub i1, i255     (i255 is the constant 1)
\*              18: i0 = int_sub i255, i0
\*              22: goto_if_not i2, L32
\*              26: i2 = int_copy i1
\*              29: goto L35
\*          L32 32: i2 = int_copy i0
\*          L35 35: can_enter_jit
\*              36: goto L0
\*          L39 39: int_return i2
JitCode(name) ==
    CASE name = "main" ->
         [name |-> "main",
          code |-> <<Opcode("inline_call_ir_i"), 0, 0, 2, 1, 0, 0, 2,
                     Opcode("goto_if_not"), 2, 15, 0,
                     Opcode("newstr"), 2, 0,
                     Opcode("int_return"), 2>>,
          constants_i |-> <<>>, constants_r |-> <<>>,
          num_regs_i |-> 3, num_regs_r |-> 1]
      [] name = "f" ->
         [name |-> "f",
          code |-> <<Opcode("int_add"), 0, 1, 2,
                     Opcode("int_add"), 0, 1, 3,
                     Opcode("int_guard_value"), 1,
                     Opcode("goto_if_not"), 3, 18, 0,
                     Opcode("int_add"), 2, 255, 2,
                     Opcode("int_return"), 2>>,
          constants_i |-> <<1>>, constants_r |-> <<>>,
          num_regs_i |-> 4, num_regs_r |-> 0]
      [] name = "calls" ->
         [name |-> "calls",
          code |-> <<Opcode("inline_call_ir_i"), 0, 0, 2, 1, 0, 0, 2,
                     Opcode("inline_call_ir_i"), 1, 0, 1, 2, 1, 255, 2,
                     Opcode("catch_exception"), 32, 0,
                     Opcode("inline_call_ir_i"), 2, 0, 1, 0, 1, 255, 2,
                     Opcode("catch_exception"), 34, 0,
                     Opcode("int_return"), 2,
                     Opcode("int_return"), 0,
                     Opcode("inline_call_ir_i"), 1, 0, 1, 0, 1, 255, 2,
                     Opcode("int_return"), 2>>,
          constants_i |-> <<>>, constants_r |-> <<1>>,
          num_regs_i |-> 3, num_regs_r |-> 0]
      [] name = "g" ->
         [name |-> "g",
          code |-> <<Opcode("int_guard_value"), 0,
                     Opcode("goto_if_not"), 0, 8, 0,
                     Opcode("int_return"), 0,
                     Opcode("raise"), 0,
                     Opcode("catch_exception"), 6, 0>>,
          constants_i |-> <<>>, constants_r |-> <<>>,
          num_regs_i |-> 1, num_regs_r |-> 1]
      [] name = "h" ->
         [name |-> "h",
          code |-> <<Opcode("inline_call_ir_i"), 1, 0, 1, 0, 1, 0, 0,
                     Opcode("catch_exception"), 13, 0,
                     Opcode("int_return"), 0,
                     Opcode("inline_call_ir_i"), 1, 0, 1, 0, 1, 0, 0,
                     Opcode("int_return"), 0>>,
          constants_i |-> <<>>, constants_r |-> <<>>,
          num_regs_i |-> 1, num_regs_r |-> 1]
      [] OTHER ->
         [name |-> "loop",
          code |-> <<Opcode("jit_merge_point"), 1, 0, 0, 0, 2, 1, 2, 0, 0,
                     Opcode("goto_if_not"), 1, 39, 0,
                     Opcode("int_sub"), 1, 255, 1,
                     Opcode("int_sub"), 255, 0, 0,
                     Opcode("goto_if_not"), 2, 32, 0,
                     Opcode("int_copy"), 1, 2,
                     Opcode("goto"), 35, 0,
                     Opcode("int_copy"), 0, 2,
                     Opcode("can_enter_jit"),
                     Opcode("goto"), 0, 0,
                     Opcode("int_return"), 2>>,
          constants_i |-> <<1>>, constants_r |-> <<>>,
          num_regs_i |-> 3, num_regs_r |-> 0]

\* ord(code[position])
ord(code, position) == code[position + 1]

\* jitcode.follow_jump(position): 'position' is just after an instruction
\* that ends with a label; the label is in the two bytes before it
follow_jump(jitcode, position) ==
    ord(JitCode(jitcode).code, position - 2)
        + 256 * ord(JitCode(jitcode).code, position - 1)

\* ------------------------------------------------------------------------
\* MIFrame
\* ------------------------------------------------------------------------
\* the registers of the model: the first NumRegs of each bank and the last
\* one, where copy_constants puts the first constant
RegisterIndexes == (0..(NumRegs - 1)) \cup {255}

\* MIFrame.__init__; 'fid' is the identity of the frame object
MIFrame ==
    [fid |-> 0, jitcode |-> "none", pc |-> 0,
     registers_i |-> [k \in RegisterIndexes |-> None],
     registers_r |-> [k \in RegisterIndexes |-> None],
     result_argcode |-> "v"]

\* copy_constants: constants[i] goes to registers[255 - i]
copy_constants(registers, constants, ConstClass) ==
    [k \in DOMAIN registers |->
        IF 255 - k + 1 \in DOMAIN constants
        THEN IF ConstClass = "ConstInt" THEN ConstInt(constants[255 - k + 1])
             ELSE ConstPtr(constants[255 - k + 1])
        ELSE registers[k]]

\* MIFrame.setup
setup(frame, jitcode) ==
    [frame EXCEPT !.jitcode = jitcode,
                  !.registers_i = copy_constants(@, JitCode(jitcode).constants_i,
                                                 "ConstInt"),
                  !.registers_r = copy_constants(@, JitCode(jitcode).constants_r,
                                                 "ConstPtr"),
                  !.result_argcode = "v"]

\* the boxes of one type, in the order of the arguments
OfType(argboxes, type) == SelectSeq(argboxes, LAMBDA box : box.type = type)

\* MIFrame.setup_call
setup_call(frame, argboxes) ==
    [frame EXCEPT !.pc = 0,
                  !.registers_i = [k \in DOMAIN @ |->
                      IF k + 1 \in DOMAIN OfType(argboxes, INT)
                      THEN OfType(argboxes, INT)[k + 1] ELSE @[k]],
                  !.registers_r = [k \in DOMAIN @ |->
                      IF k + 1 \in DOMAIN OfType(argboxes, REF)
                      THEN OfType(argboxes, REF)[k + 1] ELSE @[k]]]

\* a cleanup_registers that leaves the registers as they are
keep_registers(frame) == frame

\* MIFrame.cleanup_registers
cleanup_registers(frame) ==
    [frame EXCEPT !.registers_r = [k \in DOMAIN @ |->
                      IF k < JitCode(frame.jitcode).num_regs_r THEN None ELSE @[k]]]

\* MIFrame.replace_active_box_in_frame (Boxes are compared by identity)
replace_active_box_in_frame(frame, oldbox, newbox) ==
    IF oldbox.type = INT
    THEN [frame EXCEPT !.registers_i = [k \in DOMAIN @ |->
              IF k < JitCode(frame.jitcode).num_regs_i /\ @[k] = oldbox
              THEN newbox ELSE @[k]]]
    ELSE [frame EXCEPT !.registers_r = [k \in DOMAIN @ |->
              IF k < JitCode(frame.jitcode).num_regs_r /\ @[k] = oldbox
              THEN newbox ELSE @[k]]]

\* MIFrame.get_list_of_active_boxes, as far as it changes the frame: in a
\* frame that is in a call, the register that will hold the result of the
\* call is cleared
get_list_of_active_boxes(frame, in_a_call) ==
    IF ~in_a_call THEN frame
    ELSE [frame EXCEPT
             !.registers_i =
                 IF frame.result_argcode = "i"
                 THEN [@ EXCEPT ![ord(JitCode(frame.jitcode).code, frame.pc - 1)] = None]
                 ELSE @,
             !.registers_r =
                 IF frame.result_argcode = "r"
                 THEN [@ EXCEPT ![ord(JitCode(frame.jitcode).code, frame.pc - 1)] = None]
                 ELSE @,
             !.result_argcode = "v"]

\* ------------------------------------------------------------------------
\* MetaInterp: frames
\* ------------------------------------------------------------------------
\* framestack[-1]
TopFrame(m) == m.framestack[Len(m.framestack)]

\* 'self' in run_one_step and in the opimpl it calls, and its bytecode
SelfFrame(m) == m.framestack[m.running]
Bytecode(m) == JitCode(SelfFrame(m).jitcode).code

\* a newframe that counts every frame in in_recursion
newframe_counting_all(m, jitcode, frame) ==
    [m EXCEPT !.in_recursion = @ + 1,
              !.nframes = IF m.free_frames_list # <<>> THEN @ ELSE @ + 1,
              !.free_frames_list = IF @ # <<>> THEN Pop(@) ELSE @,
              !.framestack = Append(@, frame)]

\* MetaInterp.newframe (greenkey is None: no recursive portal call);
\* 'frame' is the frame it takes, after setup() and the setup_call() or
\* setup_resume_at_op() of the caller
newframe(m, jitcode, frame) ==
    [m EXCEPT !.in_recursion = IF jitcode = portal_code THEN @ + 1 ELSE @,
              !.nframes = IF m.free_frames_list # <<>> THEN @ ELSE @ + 1,
              !.free_frames_list = IF @ # <<>> THEN Pop(@) ELSE @,
              !.framestack = Append(@, frame)]

\* the frame newframe takes: free_frames_list.pop() or MIFrame(self), after
\* setup()
NewFrame(m, jitcode) ==
    setup(IF m.free_frames_list # <<>> THEN Top(m.free_frames_list)
          ELSE [MIFrame EXCEPT !.fid = m.nframes + 1],
          jitcode)

\* a perform_call that returns to the caller instead of raising ChangeFrame
perform_call_and_return(m, jitcode, boxes) ==
    newframe(m, jitcode, setup_call(NewFrame(m, jitcode), boxes))

\* MetaInterp.perform_call
perform_call(m, jitcode, boxes) ==
    [newframe(m, jitcode, setup_call(NewFrame(m, jitcode), boxes))
        EXCEPT !.raised = "ChangeFrame"]

\* MetaInterp.popframe
popframe(m) ==
    [m EXCEPT !.framestack = Pop(@),
              !.in_recursion = IF TopFrame(m).jitcode = portal_code THEN @ - 1 ELSE @,
              !.free_frames_list = Append(@, cleanup_registers(TopFrame(m)))]

\* the byte just before the pc of a frame: the place of the result
TargetIndex(frame) == ord(JitCode(frame.jitcode).code, frame.pc - 1)

\* MIFrame.make_result_of_lastop, on frame 'k' of the framestack
make_result_of_lastop(m, k, resultbox) ==
    IF resultbox = None THEN m
    ELSE IF resultbox.type = INT
    THEN [m EXCEPT !.framestack[k].registers_i[TargetIndex(m.framestack[k])] =
                       resultbox]
    ELSE [m EXCEPT !.framestack[k].registers_r[TargetIndex(m.framestack[k])] =
                       resultbox]

\* history.record
record(m, opnum, argboxes, resbox, descr) ==
    [m EXCEPT !.history = Append(@, ResOperation(opnum, argboxes, resbox, descr))]

\* What the backend gets from compile_new_loop or compile_new_bridge: the
\* operations, the input arguments of a loop or of a bridge from the
\* interpreter, the green key of a loop, and the loop the final JUMP goes
\* to (0: the exit of the portal)
LoopToken(key, operations, inputargs, greenkey, target) ==
    [resumekey |-> key, operations |-> operations, inputargs |-> inputargs,
     greenkey |-> greenkey, target |-> target]

\* MetaInterp.compile_done_with_this_frame: the trace, closed by a JUMP to
\* the exit, goes to the backend as a bridge from the resume key
compile_done_with_this_frame(m, exitbox) ==
    [m EXCEPT !.history = Append(@, ResOperation("JUMP", <<exitbox>>, None, NoDescr)),
              !.compiled = Append(@, LoopToken(m.resumekey,
                                       Append(m.history,
                                           ResOperation("JUMP", <<exitbox>>, None, NoDescr)),
                                       m.resumekey.redkey, <<>>, 0))]

\* the end of finishframe: the signal of the result type of the portal is
\* raised with the value of the result
DoneWithThisFrame(m, resultbox) ==
    CASE staticdata.result_type = "void" ->
         [JitFail(m, resultbox = None, "resultbox is not None")
             EXCEPT !.raised = "DoneWithThisFrameVoid", !.mode = "done"]
      [] staticdata.result_type = "int" ->
         [m EXCEPT !.raised = "DoneWithThisFrameInt", !.exitvalue = resultbox.value,
                   !.mode = "done"]
      [] OTHER ->
         [m EXCEPT !.raised = "DoneWithThisFrameRef", !.exitvalue = resultbox.value,
                   !.mode = "done"]

\* a finishframe that does not give the result to the caller
finishframe_popped_unstored(m, resultbox) ==
    IF m.framestack # <<>>
    THEN [m EXCEPT !.raised = "ChangeFrame"]
    ELSE DoneWithThisFrame(compile_done_with_this_frame(m, resultbox), resultbox)

\* MetaInterp.finishframe, after popframe
finishframe_popped(m, resultbox) ==
    IF m.framestack # <<>>
    THEN [make_result_of_lastop(m, Len(m.framestack), resultbox)
             EXCEPT !.raised = "ChangeFrame"]
    ELSE DoneWithThisFrame(compile_done_with_this_frame(m, resultbox), resultbox)

finishframe(m, resultbox) == finishframe_popped(popframe(m), resultbox)

\* ------------------------------------------------------------------------
\* MetaInterp: executing and recording operations
\* ------------------------------------------------------------------------
\* executor.execute: the operation is run on the values of the boxes, the
\* result comes in a new Box
execute_value(opnum, argboxes) ==
    CASE opnum = "INT_ADD" -> argboxes[1].value + argboxes[2].value
      [] opnum = "INT_SUB" -> argboxes[1].value - argboxes[2].value
      [] opnum = "SAME_AS" -> argboxes[1].value
      [] OTHER -> 0

executor_execute(m, opnum, argboxes) ==
    [m EXCEPT !.nboxes = @ + 1,
              !.resbox = IF opnum = "NEWSTR"
                         THEN BoxPtr(execute_value(opnum, argboxes), m.nboxes + 1)
                         ELSE BoxInt(execute_value(opnum, argboxes), m.nboxes + 1)]

\* MetaInterp._all_constants
_all_constants(boxes) == \A k \in DOMAIN boxes : IsConst(boxes[k])

\* MetaInterp._record_helper_nonpure_varargs
_record_helper_nonpure_varargs(m, opnum, descr, argboxes) ==
    record(JitFail(m, m.resbox = None \/ IsBox(m.resbox), "resbox is not a Box"),
           opnum, argboxes, m.resbox, descr)

\* resbox.nonconstbox(): a Box stays, a Const gives a new Box of its value
nonconstbox(m) ==
    IF IsConst(m.resbox)
    THEN [m EXCEPT !.nboxes = @ + 1,
                   !.resbox = [@ EXCEPT !.const = FALSE, !.id = m.nboxes + 1]]
    ELSE m

\* A variant of _record_helper_pure that records the operation even when
\* all its arguments are constants.
_record_helper_pure_unfolded(m, opnum, descr, argboxes) ==
    _record_helper_nonpure_varargs(nonconstbox(m), opnum, descr, argboxes)

\* MetaInterp._record_helper_pure
_record_helper_pure(m, opnum, descr, argboxes) ==
    IF _all_constants(argboxes)
    THEN [m EXCEPT !.resbox = constbox(@)]
    ELSE _record_helper_nonpure_varargs(nonconstbox(m), opnum, descr, argboxes)

\* MetaInterp.execute_and_record
execute_and_record(m, opnum, descr, argboxes) ==
    IF opnum \in ALWAYS_PURE
    THEN _record_helper_pure(executor_execute(m, opnum, argboxes), opnum, descr,
                             argboxes)
    ELSE _record_helper_nonpure_varargs(executor_execute(m, opnum, argboxes),
                                        opnum, descr, argboxes)

\* ------------------------------------------------------------------------
\* Guards
\* ------------------------------------------------------------------------
\* resume.capture_resumedata: every frame of the stack gives its pc and its
\* registers, after get_list_of_active_boxes
capture_frames(stack) ==
    [k \in DOMAIN stack |-> get_list_of_active_boxes(stack[k], k < Len(stack))]

capture_resumedata(m, resumepc) ==
    [m EXCEPT !.framestack = capture_frames(@),
              !.history[Len(m.history)].descr.frames =
                  capture_frames([m.framestack EXCEPT ![m.running].pc =
                                      IF resumepc >= 0 THEN resumepc ELSE @])]

\* A variant of generate_guard that emits the guard for a Const too.
generate_guard_always(m, opnum, box, extraargs, resumepc) ==
    capture_resumedata(
        record(m, opnum, IF box # None THEN <<box>> \o extraargs ELSE extraargs,
               None, ResumeGuardDescr(opnum, m.resumekey.original_greenkey)),
        resumepc)

\* MIFrame.generate_guard
generate_guard(m, opnum, box, extraargs, resumepc) ==
    IF IsConst(box) THEN m
    ELSE capture_resumedata(
             record(m, opnum, IF box # None THEN <<box>> \o extraargs ELSE extraargs,
                    None, ResumeGuardDescr(opnum, m.resumekey.original_greenkey)),
             resumepc)

\* the assert at the end of replace_active_box_in_frame, which runs when
\* the meta-interpreter is not translated: registers[count:] of the bank of
\* the type of oldbox
NotInRegistersFromCount(frame, oldbox) ==
    IF oldbox.type = INT
    THEN \A k \in RegisterIndexes :
             k >= JitCode(frame.jitcode).num_regs_i => frame.registers_i[k] # oldbox
    ELSE \A k \in RegisterIndexes :
             k >= JitCode(frame.jitcode).num_regs_r => frame.registers_r[k] # oldbox

\* MetaInterp.replace_box (no virtualizable, no virtual refs)
replace_box(m, oldbox, newbox) ==
    JitFail([m EXCEPT !.framestack = [k \in DOMAIN @ |->
                          replace_active_box_in_frame(@[k], oldbox, newbox)]],
            \A k \in DOMAIN m.framestack :
                NotInRegistersFromCount(m.framestack[k], oldbox),
            "oldbox in registers[count:]")

\* MIFrame.implement_guard_value
implement_guard_value(m, orgpc, box) ==
    IF IsConst(box) THEN m
    ELSE replace_box(generate_guard(m, "GUARD_VALUE", box, <<constbox(box)>>, orgpc),
                     box, constbox(box))

\* MIFrame.opimpl_goto_if_not
opimpl_goto_if_not(m, box, target) ==
    IF box.value # 0
    THEN generate_guard(m, "GUARD_TRUE", box, <<>>, -1)
    ELSE [generate_guard(m, "GUARD_FALSE", box, <<>>, -1)
             EXCEPT !.framestack[m.running].pc = target]

\* ------------------------------------------------------------------------
\* The handlers of the instructions (_get_opimpl_method): decode the
\* arguments, set the pc past them, call the opimpl, store its result
\* ------------------------------------------------------------------------
\* MetaInterp.switch_to_blackhole: its first statement is the unbound name
\* XXX, the NameError ends the meta-interpreter
switch_to_blackhole(m, reason) ==
    [m EXCEPT !.switched = reason, !.raised = "NameError", !.mode = "crashed"]

\* MetaInterp.switch_to_blackhole_if_trace_too_long (is_blackholing() is
\* False)
switch_to_blackhole_if_trace_too_long(m) ==
    IF Len(m.history) > staticdata.trace_limit
    THEN switch_to_blackhole(m, "ABORT_TOO_LONG")
    ELSE m

\* MIFrame.run_one_step and MetaInterp._interpret, after an opimpl: without
\* ChangeFrame the loop of run_one_step goes on with the same frame; with
\* it run_one_step returns, the length of the trace is checked and
\* framestack[-1].run_one_step() is called
_interpret(m) ==
    IF m.raised = "ChangeFrame"
    THEN switch_to_blackhole_if_trace_too_long(
             [m EXCEPT !.running = Len(m.framestack)])
    ELSE m

\* ------------------------------------------------------------------------
\* Loop closing
\* ------------------------------------------------------------------------
\* Box.clonebox(): a new Box of the same type and value
clonebox(box, n) == [box EXCEPT !.const = FALSE, !.id = n]

\* Const.same_constant
same_constant(box1, box2) == box1.value = box2.value

GreenArgs(boxes) == SubSeq(boxes, 1, num_green_args)
RedArgs(boxes) == SubSeq(boxes, num_green_args + 1, Len(boxes))

\* a variant that replaces the Consts and keeps the duplicates
RECURSIVE remove_consts(_, _, _, _)
remove_consts(m, i, endindex, duplicates) ==
    IF i > endindex THEN m
    ELSE IF IsConst(m.redboxes[i])
    THEN remove_consts(
             record([m EXCEPT !.nboxes = @ + 1,
                              !.redboxes[i] = clonebox(@, m.nboxes + 1)],
                    "SAME_AS", <<m.redboxes[i]>>,
                    clonebox(m.redboxes[i], m.nboxes + 1), NoDescr),
             i + 1, endindex, duplicates)
    ELSE remove_consts(m, i + 1, endindex, duplicates)

\* MetaInterp.remove_consts_and_duplicates on the list m.redboxes, from
\* index 'i' on
RECURSIVE remove_consts_and_duplicates(_, _, _, _)
remove_consts_and_duplicates(m, i, endindex, duplicates) ==
    IF i > endindex THEN m
    ELSE IF IsConst(m.redboxes[i]) \/ m.redboxes[i] \in duplicates
    THEN remove_consts_and_duplicates(
             record([m EXCEPT !.nboxes = @ + 1,
                              !.redboxes[i] = clonebox(@, m.nboxes + 1)],
                    "SAME_AS", <<m.redboxes[i]>>,
                    clonebox(m.redboxes[i], m.nboxes + 1), NoDescr),
             i + 1, endindex, duplicates)
    ELSE remove_consts_and_duplicates(m, i + 1, endindex,
                                      duplicates \cup {m.redboxes[i]})

\* the green key 'boxes' has the constants of 'greenkey'
SameGreenKey(boxes, greenkey) ==
    /\ Len(boxes) >= Len(greenkey)
    /\ \A i \in DOMAIN greenkey : same_constant(boxes[i], greenkey[i])

\* globaldata.get_compiled_merge_points(greenkey): the loops compiled for
\* the green key
get_compiled_merge_points(m, greenkey) ==
    {t \in DOMAIN m.compiled :
        m.compiled[t].target = t /\ SameGreenKey(m.compiled[t].greenkey, greenkey)}

\* GenerateMergePoint(live_arg_boxes, loop_token) is raised
GenerateMergePoint(m) == [m EXCEPT !.raised = "GenerateMergePoint", !.mode = "done"]

\* what 'attempts' keeps of a call of compile_new_loop or compile_new_bridge
Attempt(kind, m, inputargs, start, ok) ==
    [kind |-> kind, inputargs |-> inputargs, start |-> start,
     operations |-> SubSeq(m.history, start + 1, Len(m.history)), ok |-> ok]

\* compile.compile_new_loop: the operations from 'start' on go to the
\* optimizer and the backend; the result is a loop token ('ok') or None,
\* and history.operations is left as it is
compile_new_loop(m, greenkey, inputargs, start, ok) ==
    IF ok
    THEN GenerateMergePoint(
             [m EXCEPT !.compiled = Append(@,
                           LoopToken(m.resumekey,
                                     SubSeq(m.history, start + 1, Len(m.history)),
                                     inputargs, greenkey, Len(m.compiled) + 1)),
                       !.attempts = Append(@, Attempt("loop", m, inputargs, start, ok))])
    ELSE [m EXCEPT !.attempts = Append(@, Attempt("loop", m, inputargs, start, ok))]

\* compile.compile_new_bridge: the result is the token of the loop the
\* bridge jumps to ('ok') or None, and history.operations is left as it is
compile_new_bridge(m, old_loop_tokens, ok) ==
    IF ok
    THEN GenerateMergePoint(
             [m EXCEPT !.compiled = Append(@,
                           LoopToken(m.resumekey, m.history, m.resumekey.redkey, <<>>,
                                     CHOOSE t \in old_loop_tokens : TRUE)),
                       !.attempts = Append(@, Attempt("bridge", m, <<>>, 0, ok))])
    ELSE [m EXCEPT !.attempts = Append(@, Attempt("bridge", m, <<>>, 0, ok))]

\* A variant of RemoveJump that leaves the JUMP in the trace.
KeepJump(m) == m

\* 'self.history.operations.pop()', reached when no loop token came back
RemoveJump(m) ==
    IF m.raised = "GenerateMergePoint" THEN m ELSE [m EXCEPT !.history = Pop(@)]

\* MetaInterp.compile
compile(m, original_boxes, live_arg_boxes, start, ok) ==
    RemoveJump(
        compile_new_loop(record(m, "JUMP", RedArgs(live_arg_boxes), None, NoDescr),
                         GreenArgs(original_boxes), RedArgs(original_boxes),
                         start, ok))

\* MetaInterp.compile_bridge
compile_bridge(m, live_arg_boxes, ok) ==
    IF get_compiled_merge_points(m, GreenArgs(live_arg_boxes)) = {} THEN m
    ELSE RemoveJump(
             compile_new_bridge(
                 record(m, "JUMP", RedArgs(live_arg_boxes), None, NoDescr),
                 get_compiled_merge_points(m, GreenArgs(live_arg_boxes)), ok))

\* A variant of MatchingMergePoint that takes every entry as a match.
AnyMergePoint(m, j, live_arg_boxes) == TRUE

\* entry 'j' of current_merge_points has the green key of live_arg_boxes
MatchingMergePoint(m, j, live_arg_boxes) ==
    \A i \in 1..num_green_args :
        same_constant(m.current_merge_points[j][1][i], live_arg_boxes[i])

\* the asserts of the loop over current_merge_points
CheckedMergePoint(m, j, live_arg_boxes) ==
    JitFail(JitFail(m, \/ Len(m.current_merge_points[j][1]) = Len(live_arg_boxes)
                       \/ m.current_merge_points[j][2] < 0,
                    "merge point of another length"),
            \A i \in 1..num_green_args : IsConst(m.current_merge_points[j][1][i]),
            "green box is not a Const")

\* MetaInterp.reached_can_enter_jit: the loop over current_merge_points from
\* entry 'j' down, then the append; 'ok' has the entries from which
\* compile_new_loop succeeds
RECURSIVE search_merge_points(_, _, _, _)
search_merge_points(m, live_arg_boxes, j, ok) ==
    IF m.raised # "none" THEN m
    ELSE IF j = 0
    THEN [m EXCEPT !.current_merge_points =
                       Append(@, <<live_arg_boxes, Len(m.history)>>)]
    ELSE IF ~MatchingMergePoint(m, j, live_arg_boxes)
    THEN search_merge_points(CheckedMergePoint(m, j, live_arg_boxes),
                             live_arg_boxes, j - 1, ok)
    ELSE IF m.current_merge_points[j][2] < 0
    THEN [CheckedMergePoint(m, j, live_arg_boxes) EXCEPT !.raised = "GiveUp"]
    ELSE search_merge_points(
             compile(CheckedMergePoint(m, j, live_arg_boxes),
                     m.current_merge_points[j][1], live_arg_boxes,
                     m.current_merge_points[j][2], j \in ok),
             live_arg_boxes, j - 1, ok)

\* MetaInterp.reached_can_enter_jit, after remove_consts_and_duplicates
\* (no virtualizable, no virtual refs); 0 is in 'ok' when
\* compile_new_bridge succeeds
reached_can_enter_jit_cleaned(m, greenboxes, ok) ==
    search_merge_points(compile_bridge(m, greenboxes \o m.redboxes, 0 \in ok),
                        greenboxes \o m.redboxes,
                        Len(m.current_merge_points), ok)

reached_can_enter_jit(m, greenboxes, redboxes, ok) ==
    reached_can_enter_jit_cleaned(
        remove_consts_and_duplicates([m EXCEPT !.redboxes = redboxes], 1,
                                     Len(redboxes), {}),
        greenboxes, ok)

\* MIFrame.debug_merge_point: the location string comes in a constant
debug_merge_point(m, greenkey) ==
    record(m, "DEBUG_MERGE_POINT", <<ConstPtr(0)>>, None, NoDescr)

\* MIFrame.opimpl_can_enter_jit
opimpl_can_enter_jit(m) ==
    IF m.in_recursion # 0
    THEN [m EXCEPT !.raised = "CannotInlineCanEnterJit", !.mode = "crashed"]
    ELSE [m EXCEPT !.seen_can_enter_jit = TRUE]

\* the handler of GiveUp in opimpl_jit_merge_point: the unbound name XXX
\* comes before the call of switch_to_blackhole(ABORT_BRIDGE)
GiveUpCaught(m) ==
    IF m.raised = "GiveUp"
    THEN [m EXCEPT !.raised = "NameError", !.mode = "crashed"]
    ELSE m

\* MIFrame.opimpl_jit_merge_point (verify_green_args asserts that the green
\* boxes are Consts)
opimpl_jit_merge_point(m, greenboxes, redboxes, ok) ==
    IF m.seen_can_enter_jit
    THEN GiveUpCaught(
             reached_can_enter_jit(
                 [debug_merge_point(JitFail(m, _all_constants(greenboxes),
                                            "green box is not a Const"),
                                    greenboxes)
                     EXCEPT !.seen_can_enter_jit = FALSE],
                 greenboxes, redboxes, ok))
    ELSE debug_merge_point(JitFail(m, _all_constants(greenboxes),
                                   "green box is not a Const"),
                           greenboxes)

\* ------------------------------------------------------------------------
\* Exceptions
\* ------------------------------------------------------------------------
\* cpu.ts.cls_of_box: the class of an instance, in a constant
cls_of_box(box) == ConstInt(box.value)

\* MetaInterp.compile_exit_frame_with_exception
compile_exit_frame_with_exception(m, valuebox) ==
    [m EXCEPT !.history = Append(@, ResOperation("JUMP", <<valuebox>>, None, NoDescr)),
              !.compiled = Append(@, LoopToken(m.resumekey,
                                       Append(m.history,
                                           ResOperation("JUMP", <<valuebox>>, None, NoDescr)),
                                       m.resumekey.redkey, <<>>, 0))]

\* the frame is at a catch_exception instruction
AtCatchException(frame) ==
    /\ frame.pc < Len(JitCode(frame.jitcode).code)
    /\ ord(JitCode(frame.jitcode).code, frame.pc) = Opcode("catch_exception")

\* MetaInterp.finishframe_exception
RECURSIVE finishframe_exception(_)
finishframe_exception(m) ==
    IF m.framestack = <<>>
    THEN [compile_exit_frame_with_exception(m, m.last_exc_value_box)
             EXCEPT !.raised = "ExitFrameWithExceptionRef",
                    !.exitvalue = m.last_exc_value_box.value, !.mode = "done"]
    ELSE IF AtCatchException(TopFrame(m))
    THEN [m EXCEPT !.framestack[Len(m.framestack)].pc =
                       ord(JitCode(TopFrame(m).jitcode).code, TopFrame(m).pc + 1)
                       + 256 * ord(JitCode(TopFrame(m).jitcode).code, TopFrame(m).pc + 2),
                   !.raised = "ChangeFrame"]
    ELSE finishframe_exception(popframe(m))

\* an opimpl_raise that leaves the raising frame on the framestack
opimpl_raise_unpopped(m, orgpc, exc_value_box) ==
    finishframe_exception(
        [generate_guard(m, "GUARD_CLASS", exc_value_box,
                        <<cls_of_box(exc_value_box)>>, orgpc)
            EXCEPT !.last_exc_value_box = exc_value_box])

\* MIFrame.opimpl_raise
opimpl_raise(m, orgpc, exc_value_box) ==
    finishframe_exception(
        popframe([generate_guard(m, "GUARD_CLASS", exc_value_box,
                                 <<cls_of_box(exc_value_box)>>, orgpc)
                     EXCEPT !.last_exc_value_box = exc_value_box]))

\* MIFrame.opimpl_catch_exception
opimpl_catch_exception(m, target) ==
    JitFail(m, m.last_exc_value_box = None, "last_exc_value_box is not None")

Decoded(m, position, argcode) ==
    [m EXCEPT !.framestack[m.running].pc = position,
              !.framestack[m.running].result_argcode = argcode]

\* argtype "box" with argcode 'i', argtype "label", argtype "boxes"
RegI(m, position) == SelfFrame(m).registers_i[ord(Bytecode(m), position)]
Label(m, position) ==
    ord(Bytecode(m), position) + 256 * ord(Bytecode(m), position + 1)
ListOfBoxes(m, registers, position) ==
    [i \in 1..ord(Bytecode(m), position) |-> registers[ord(Bytecode(m), position + i)]]

\* the instruction the running frame is at
AtOpcode(name) ==
    /\ mode = "tracing"
    /\ ord(Bytecode(MI), SelfFrame(MI).pc) = Opcode(name)

\* what 'jlast' records of a step
JLast(op, m, args, orgpc) ==
    [op |-> op, args |-> args, orgpc |-> orgpc, resbox |-> m.resbox,
     raised |-> m.raised, failed |-> m.failed, trace |-> 0, guard |-> 0,
     exitvalue |-> m.exitvalue, redboxes |-> m.redboxes, attempts |-> m.attempts,
     switched |-> _interpret(m).switched]

OrgPc == SelfFrame(MI).pc

\* int_add/ii>i
handler_int_add ==
    /\ AtOpcode("int_add")
    /\ LET argboxes == <<RegI(MI, OrgPc + 1), RegI(MI, OrgPc + 2)>>
           m == execute_and_record(Decoded(MI, OrgPc + 4, "i"), "INT_ADD",
                                   NoDescr, argboxes)
       IN /\ JitCommit(_interpret(make_result_of_lastop(m, m.running, m.resbox)))
          /\ jlast' = JLast("int_add", m, argboxes, OrgPc)
    /\ UNCHANGED failures

\* newstr/i>r
handler_newstr ==
    /\ AtOpcode("newstr")
    /\ LET argboxes == <<RegI(MI, OrgPc + 1)>>
           m == execute_and_record(Decoded(MI, OrgPc + 3, "r"), "NEWSTR",
                                   NoDescr, argboxes)
       IN /\ JitCommit(_interpret(make_result_of_lastop(m, m.running, m.resbox)))
          /\ jlast' = JLast("newstr", m, argboxes, OrgPc)
    /\ UNCHANGED failures

\* int_guard_value/i
handler_int_guard_value ==
    /\ AtOpcode("int_guard_value")
    /\ LET box == RegI(MI, OrgPc + 1)
           m == implement_guard_value(Decoded(MI, OrgPc + 2, "v"), OrgPc, box)
       IN /\ JitCommit(_interpret(m))
          /\ jlast' = JLast("int_guard_value", m, <<box>>, OrgPc)
    /\ UNCHANGED failures

\* goto_if_not/iL
handler_goto_if_not ==
    /\ AtOpcode("goto_if_not")
    /\ LET box == RegI(MI, OrgPc + 1)
           m == opimpl_goto_if_not(Decoded(MI, OrgPc + 4, "v"), box,
                                   Label(MI, OrgPc + 2))
       IN /\ JitCommit(_interpret(m))
          /\ jlast' = JLast("goto_if_not", m, <<box>>, OrgPc)
    /\ UNCHANGED failures

\* inline_call_ir_i/dIR>i
handler_inline_call_ir_i ==
    /\ AtOpcode("inline_call_ir_i")
    /\ LET jitcode == opcode_descrs[Label(MI, OrgPc + 1) + 1]
           position2 == OrgPc + 3 + 1 + ord(Bytecode(MI), OrgPc + 3)
           argboxes == ListOfBoxes(MI, SelfFrame(MI).registers_i, OrgPc + 3)
                           \o ListOfBoxes(MI, SelfFrame(MI).registers_r, position2)
           m == perform_call(
                    Decoded(MI, position2 + 1 + ord(Bytecode(MI), position2) + 1, "i"),
                    jitcode, argboxes)
       IN /\ JitCommit(_interpret(m))
          /\ jlast' = JLast("inline_call_ir_i", m, argboxes, OrgPc)
    /\ UNCHANGED failures

\* int_return/i
handler_int_return ==
    /\ AtOpcode("int_return")
    /\ LET box == RegI(MI, OrgPc + 1)
           m == finishframe(Decoded(MI, OrgPc + 2, "v"), box)
       IN /\ JitCommit(_interpret(m))
          /\ jlast' = JLast("int_return", m, <<box>>, OrgPc)
    /\ UNCHANGED failures

\* int_sub/ii>i
handler_int_sub ==
    /\ AtOpcode("int_sub")
    /\ LET argboxes == <<RegI(MI, OrgPc + 1), RegI(MI, OrgPc + 2)>>
           m == execute_and_record(Decoded(MI, OrgPc + 4, "i"), "INT_SUB",
                                   NoDescr, argboxes)
       IN /\ JitCommit(_interpret(make_result_of_lastop(m, m.running, m.resbox)))
          /\ jlast' = JLast("int_sub", m, argboxes, OrgPc)
    /\ UNCHANGED failures

\* int_copy/i>i (_opimpl_any_copy returns its argument)
handler_int_copy ==
    /\ AtOpcode("int_copy")
    /\ LET box == RegI(MI, OrgPc + 1)
           m == Decoded(MI, OrgPc + 3, "i")
       IN /\ JitCommit(_interpret(make_result_of_lastop(m, m.running, box)))
          /\ jlast' = JLast("int_copy", m, <<box>>, OrgPc)
    /\ UNCHANGED failures

\* goto/L (opimpl_goto sets the pc)
handler_goto ==
    /\ AtOpcode("goto")
    /\ LET m == [Decoded(MI, OrgPc + 3, "v")
                    EXCEPT !.framestack[running].pc = Label(MI, OrgPc + 1)]
       IN /\ JitCommit(_interpret(m))
          /\ jlast' = JLast("goto", m, <<>>, OrgPc)
    /\ UNCHANGED failures

\* can_enter_jit/
handler_can_enter_jit ==
    /\ AtOpcode("can_enter_jit")
    /\ LET m == opimpl_can_enter_jit(Decoded(MI, OrgPc + 1, "v"))
       IN /\ JitCommit(_interpret(m))
          /\ jlast' = JLast("can_enter_jit", m, <<>>, OrgPc)
    /\ UNCHANGED failures

\* argtype "boxes3" at 'position': the three lists merged into one (no
\* float register is used), and the position after them
Boxes3(m, position) ==
    ListOfBoxes(m, SelfFrame(m).registers_i, position)
        \o ListOfBoxes(m, SelfFrame(m).registers_r,
                       position + 1 + ord(Bytecode(m), position))
AfterBoxes3(m, position) ==
    position + 3 + ord(Bytecode(m), position)
        + ord(Bytecode(m), position + 1 + ord(Bytecode(m), position))

\* jit_merge_point/IRFIRF
handler_jit_merge_point(ok) ==
    /\ AtOpcode("jit_merge_point")
    /\ LET greenboxes == Boxes3(MI, OrgPc + 1)
           redboxes == Boxes3(MI, AfterBoxes3(MI, OrgPc + 1))
           m == opimpl_jit_merge_point(
                    Decoded(MI, AfterBoxes3(MI, AfterBoxes3(MI, OrgPc + 1)), "v"),
                    greenboxes, redboxes, ok)
       IN /\ JitCommit(_interpret(m))
          /\ jlast' = JLast("jit_merge_point", m, greenboxes \o redboxes, OrgPc)
    /\ UNCHANGED failures

\* raise/r
handler_raise ==
    /\ AtOpcode("raise")
    /\ LET box == SelfFrame(MI).registers_r[ord(Bytecode(MI), OrgPc + 1)]
           m == opimpl_raise(Decoded(MI, OrgPc + 2, "v"), OrgPc, box)
       IN /\ JitCommit(_interpret(m))
          /\ jlast' = JLast("raise", m, <<box>>, OrgPc)
    /\ UNCHANGED failures

\* catch_exception/L
handler_catch_exception ==
    /\ AtOpcode("catch_exception")
    /\ LET m == opimpl_catch_exception(Decoded(MI, OrgPc + 3, "v"),
                                       Label(MI, OrgPc + 1))
       IN /\ JitCommit(_interpret(m))
          /\ jlast' = JLast("catch_exception", m, <<>>, OrgPc)
    /\ UNCHANGED failures

\* ------------------------------------------------------------------------
\* A guard of the compiled code fails
\* ------------------------------------------------------------------------
\* the value of an operand when the compiled code runs
RunValue(box, env) == IF IsConst(box) THEN box.value ELSE env[box.id]

GuardFails(op, env) ==
    \/ op.opnum = "GUARD_TRUE" /\ RunValue(op.args[1], env) = 0
    \/ op.opnum = "GUARD_FALSE" /\ RunValue(op.args[1], env) # 0
    \/ op.opnum = "GUARD_VALUE" /\ RunValue(op.args[1], env) # RunValue(op.args[2], env)

IsGuard(op) == op.opnum \in {"GUARD_TRUE", "GUARD_FALSE", "GUARD_VALUE"}

\* the bridges compiled from guard 'j' of trace 't'
Bridges(t, j) ==
    {b \in DOMAIN compiled :
        compiled[b].resumekey.trace = t /\ compiled[b].resumekey.guard = j}

\* the values of the boxes after the JUMP that ends trace 't': the input
\* arguments of the target loop get the values of the arguments of the JUMP
JumpEnv(t, env) ==
    [n \in DOMAIN env |->
        IF \E k \in DOMAIN compiled[compiled[t].target].inputargs :
               compiled[compiled[t].target].inputargs[k].id = n
        THEN RunValue(Top(compiled[t].operations).args[
                          CHOOSE k \in DOMAIN compiled[compiled[t].target].inputargs :
                              compiled[compiled[t].target].inputargs[k].id = n],
                      env)
        ELSE env[n]]

\* The compiled code runs from operation 'j' of trace 't' with the values
\* 'env' of the boxes: <<t, j, env>> of the guard that fails and has no
\* bridge, or <<0, 0, env>> when the code leaves the portal.
RECURSIVE run_compiled(_, _, _)
run_compiled(t, j, env) ==
    IF j > Len(compiled[t].operations) THEN <<0, 0, env>>
    ELSE IF compiled[t].operations[j].opnum = "JUMP"
    THEN IF compiled[t].target = 0 THEN <<0, 0, env>>
         ELSE run_compiled(compiled[t].target, 1, JumpEnv(t, env))
    ELSE IF IsGuard(compiled[t].operations[j])
    THEN IF ~GuardFails(compiled[t].operations[j], env)
         THEN run_compiled(t, j + 1, env)
         ELSE IF Bridges(t, j) = {} THEN <<t, j, env>>
         ELSE run_compiled(CHOOSE b \in Bridges(t, j) : TRUE, 1, env)
    ELSE IF compiled[t].operations[j].result = None
    THEN run_compiled(t, j + 1, env)
    ELSE run_compiled(t, j + 1,
             [env EXCEPT ![compiled[t].operations[j].result.id] =
                 execute_value(compiled[t].operations[j].opnum,
                               [k \in DOMAIN compiled[t].operations[j].args |->
                                   [value |-> RunValue(compiled[t].operations[j].args[k],
                                                       env)]])])

\* a register of a rebuilt frame: the box of the snapshot with the value it
\* has now
Rebuilt(box, old, env) ==
    IF box = None THEN old
    ELSE IF IsConst(box) THEN box
    ELSE [box EXCEPT !.value = env[box.id]]

\* resume.rebuild_from_resumedata: a frame for every frame of the snapshot,
\* from newframe, at the pc and with the boxes of the snapshot
RECURSIVE rebuild_from_resumedata(_, _, _, _)
rebuild_from_resumedata(m, frames, k, env) ==
    IF k > Len(frames) THEN m
    ELSE rebuild_from_resumedata(
             newframe(m, frames[k].jitcode,
                      [NewFrame(m, frames[k].jitcode) EXCEPT
                          !.pc = frames[k].pc,
                          !.registers_i = [r \in DOMAIN @ |->
                              Rebuilt(frames[k].registers_i[r], @[r], env)],
                          !.registers_r = [r \in DOMAIN @ |->
                              Rebuilt(frames[k].registers_r[r], @[r], env)]]),
             frames, k + 1, env)

\* MetaInterp.initialize_state_from_guard_failure
initialize_state_from_guard_failure(m, resumedescr, env) ==
    rebuild_from_resumedata([m EXCEPT !.in_recursion = -1, !.history = <<>>,
                                      !.framestack = <<>>,
                                      !.current_merge_points =
                                          <<<<resumedescr.original_greenkey, -1>>>>,
                                      !.seen_can_enter_jit = FALSE],
                            resumedescr.frames, 1, env)

\* A variant of prepare_resume_from_failure that leaves the pc where the
\* guard was captured.
prepare_resume_from_failure_stay(m, opnum) == m

\* MetaInterp.prepare_resume_from_failure
prepare_resume_from_failure(m, opnum) ==
    IF opnum = "GUARD_TRUE"
    THEN [m EXCEPT !.framestack[Len(m.framestack)].pc =
                       follow_jump(TopFrame(m).jitcode, TopFrame(m).pc)]
    ELSE m

\* MetaInterp.handle_guard_failure, up to interpret()
resume_at(m, t, j, env) ==
    prepare_resume_from_failure(
        [initialize_state_from_guard_failure(m, compiled[t].operations[j].descr, env)
            EXCEPT !.resumekey = ResumeKey(t, j,
                       compiled[t].operations[j].descr.original_greenkey),
                   !.mode = "tracing"],
        compiled[t].operations[j].descr.guard_opnum)

\* MetaInterp.__init__: every tracing has its own MetaInterp object
MetaInterp(m) ==
    [m EXCEPT !.framestack = <<>>, !.free_frames_list = <<>>,
              !.in_recursion = 0, !.last_exc_value_box = None]

\* MetaInterp.interpret: _interpret starts with framestack[-1].run_one_step()
interpret(m) == [m EXCEPT !.running = Len(m.framestack)]

\* the traces the interpreter can enter: the loops and the bridges from the
\* interpreter
EntryTraces ==
    {t \in DOMAIN compiled : compiled[t].target = t \/ compiled[t].resumekey.trace = 0}

\* the values of the boxes when trace 't' is entered with 'vals' for its
\* input arguments
EntryEnv(t, vals) ==
    [n \in 1..nboxes |->
        IF \E k \in DOMAIN compiled[t].inputargs : compiled[t].inputargs[k].id = n
        THEN vals[CHOOSE k \in DOMAIN compiled[t].inputargs :
                      compiled[t].inputargs[k].id = n]
        ELSE 0]

\* the compiled code is entered at trace 't' with the values 'vals' for the
\* red arguments; a guard fails
handle_guard_failure(t, vals) ==
    /\ mode = "done"
    /\ failures > 0
    /\ t \in EntryTraces
    /\ LET fail == run_compiled(t, 1, EntryEnv(t, vals))
       IN /\ fail[1] # 0
          /\ JitCommit(interpret(resume_at(MetaInterp(MI), fail[1], fail[2], fail[3])))
          /\ jlast' = [JLast("handle_guard_failure", MI, <<>>, 0)
                          EXCEPT !.trace = fail[1], !.guard = fail[2]]
    /\ failures' = failures - 1

\* ------------------------------------------------------------------------
\* Tracing main(a, b): compile_and_run_once, then guard failures
\* ------------------------------------------------------------------------
IntValues == {0, 1}

\* warmstate.wrap: a green argument comes in a Const, a red one in a Box
wrap(value, in_const_box, n) ==
    IF in_const_box THEN ConstInt(value) ELSE BoxInt(value, n)

\* MetaInterp.initialize_state_from_start, after _compile_and_run_once has
\* reset the history and the merge points
initialize_state_from_start(original_boxes) ==
    /\ framestack = <<setup_call(setup([MIFrame EXCEPT !.fid = 1], portal_code),
                                 original_boxes)>>
    /\ free_frames_list = <<>>
    /\ nframes = 1
    /\ in_recursion = 0
    /\ history = <<>>
    /\ current_merge_points = <<<<original_boxes, 0>>>>
    /\ seen_can_enter_jit = FALSE
    /\ running = 1
    /\ last_exc_value_box = None
    /\ resumekey = ResumeFromInterpDescr(
                        SubSeq(original_boxes, 1, num_green_args),
                        SubSeq(original_boxes, num_green_args + 1, Len(original_boxes)))

\* warmstate.trace_limit: the values of the parameter that are explored
TraceLimits == {SmallTraceLimit, LargeTraceLimit}

\* compile_and_run_once on main(a, b): the first 'greens' arguments are
\* green
InitJit ==
    /\ GcStart(0, 0, 0)
    /\ \E greens \in 0..2, limit \in TraceLimits :
           staticdata = [portal_code |-> "main", num_green_args |-> greens,
                         result_type |-> "int", trace_limit |-> limit]
    /\ \E a \in IntValues, b \in IntValues :
           initialize_state_from_start(<<wrap(a, num_green_args > 0, 1),
                                         wrap(b, num_green_args > 1, 2 - num_green_args)>>)
    /\ nboxes = 2 - num_green_args
    /\ compiled = <<>>
    /\ mode = "tracing"
    /\ jlast = JLast("none", MI, <<>>, 0)
    /\ failures = MaxFailures
    /\ VrefOff

NextJit ==
    \/ handler_int_add
    \/ handler_newstr
    \/ handler_int_guard_value
    \/ handler_goto_if_not
    \/ handler_inline_call_ir_i
    \/ handler_int_return
    \/ \E t \in DOMAIN compiled, vals \in [1..2 -> IntValues] :
           handle_guard_failure(t, vals)

SpecJit == InitJit /\ [][NextJit]_vars

\* no assert of the meta-interpreter fails
NoJitErrors == jlast.failed = {}

\* ------------------------------------------------------------------------
\* Constant folding in execute_and_record
\* ------------------------------------------------------------------------
\* the step is a handler that went through execute_and_record
ExecuteAndRecordStep == jlast'.op \in {"int_add", "newstr"}

\* the opcode execute_and_record got in the step
RecordedOpnum == IF jlast'.op = "int_add" THEN "INT_ADD" ELSE "NEWSTR"

\* the step ran an always-pure operation on constants only
FoldedStep ==
    /\ ExecuteAndRecordStep
    /\ RecordedOpnum \in ALWAYS_PURE
    /\ _all_constants(jlast'.args)

\* C18: execute_and_record on an always-pure opcode whose operands are
\* all Const appends nothing to the trace and returns a Const; a second
\* application to the same constant operands returns an equal Const and
\* leaves the trace unchanged again.  With a non-Const operand, or for an
\* opcode that is not pure, exactly one operation is appended, of that
\* opcode on those operands, and its result is a Box.
ConstantFolding ==
    [][ExecuteAndRecordStep =>
          IF FoldedStep
          THEN /\ history' = history
               /\ IsConst(jlast'.resbox)
               /\ jlast'.resbox.value = jlast'.args[1].value + jlast'.args[2].value
               /\ (jlast.op = jlast'.op /\ jlast.args = jlast'.args
                      => jlast'.resbox = jlast.resbox)
          ELSE /\ Len(history') = Len(history) + 1
               /\ SubSeq(history', 1, Len(history)) = history
               /\ history'[Len(history')].opnum = RecordedOpnum
               /\ history'[Len(history')].args = jlast'.args
               /\ history'[Len(history')].result = jlast'.resbox
               /\ IsBox(jlast'.resbox)]_vars

\* f(x, y) was entered with two constants: its second int_add has just
\* folded the same operands as its first one, to the same Const, and the
\* trace is still empty
FoldedTwice ==
    /\ jlast.op = "int_add"
    /\ jlast.orgpc = 4
    /\ mode = "tracing"
    /\ TopFrame(MI).jitcode = "f"
    /\ _all_constants(jlast.args)
    /\ IsConst(jlast.resbox)
    /\ TopFrame(MI).registers_i[2] = TopFrame(MI).registers_i[3]
    /\ TopFrame(MI).registers_i[3] = jlast.resbox
    /\ history = <<>>

\* ------------------------------------------------------------------------
\* generate_guard
\* ------------------------------------------------------------------------
\* the step is a handler that went through generate_guard, on the tested
\* operand jlast'.args[1]
GenerateGuardStep == jlast'.op \in {"goto_if_not", "int_guard_value"}

\* the pc the guard of the step resumes at: the orgpc that
\* implement_guard_value passes, and for goto_if_not (resumepc = -1) the pc
\* of the frame at the call, which is past the instruction
RequestedResumePc ==
    IF jlast'.op = "int_guard_value" THEN jlast'.orgpc ELSE jlast'.orgpc + 4

\* the pc of the frame when generate_guard is called in the step
PcAtGenerateGuard ==
    IF jlast'.op = "int_guard_value" THEN jlast'.orgpc + 2 ELSE jlast'.orgpc + 4

\* what the guard that ends the trace of the next state has captured
CapturedFrames == history'[Len(history')].descr.frames

\* the snapshot has every frame of the stack, at its pc and with its
\* registers, the running frame at the requested pc
CapturedWholeStack ==
    /\ Len(CapturedFrames) = Len(framestack)
    /\ \A k \in 1..(Len(framestack) - 1) :
           /\ CapturedFrames[k] = get_list_of_active_boxes(framestack[k], TRUE)
           /\ CapturedFrames[k].pc = framestack[k].pc
    /\ CapturedFrames[Len(framestack)] =
           [Decoded(MI, RequestedResumePc, "v").framestack[Len(framestack)]
               EXCEPT !.pc = RequestedResumePc]

\* generate_guard, called where the running frame is at a guarding
\* instruction, leaves the pc of the frame as it was at the call
GuardKeepsPc ==
    /\ AtOpcode("int_guard_value") =>
           TopFrame(generate_guard(Decoded(MI, OrgPc + 2, "v"), "GUARD_VALUE",
                                   RegI(MI, OrgPc + 1),
                                   <<constbox(RegI(MI, OrgPc + 1))>>, OrgPc)).pc
               = OrgPc + 2
    /\ AtOpcode("goto_if_not") =>
           \A opnum \in {"GUARD_TRUE", "GUARD_FALSE"} :
               TopFrame(generate_guard(Decoded(MI, OrgPc + 4, "v"), opnum,
                                       RegI(MI, OrgPc + 1), <<>>, -1)).pc
                   = OrgPc + 4

\* C19: generate_guard on a Const tested operand appends no operation to
\* the trace and captures nothing; on a Box it appends exactly one guard
\* operation on that operand, whose resume descriptor holds every frame of
\* the frame stack, the running one at the requested resume pc; and the pc
\* of the frame after the call is its pc before the call.
GuardGeneration ==
    /\ []GuardKeepsPc
    /\ [][GenerateGuardStep =>
            /\ jlast'.op = "int_guard_value" =>
                   TopFrame(MI)'.pc = PcAtGenerateGuard
            /\ jlast'.op = "goto_if_not" /\ jlast'.args[1].value # 0 =>
                   TopFrame(MI)'.pc = PcAtGenerateGuard
            /\ IF IsConst(jlast'.args[1])
               THEN /\ history' = history
                    /\ \A k \in 1..(Len(framestack) - 1) :
                           framestack'[k] = framestack[k]
               ELSE /\ Len(history') = Len(history) + 1
                    /\ SubSeq(history', 1, Len(history)) = history
                    /\ IsGuard(history'[Len(history')])
                    /\ history'[Len(history')].args[1] = jlast'.args[1]
                    /\ history'[Len(history')].result = None
                    /\ history'[Len(history')].descr.guard_opnum =
                           history'[Len(history')].opnum
                    /\ CapturedWholeStack]_vars

\* int_guard_value in f, called from main, has just recorded GUARD_VALUE
\* on a Box: the snapshot has the two frames, f at the pc of the
\* instruction, and f goes on past the instruction
GuardCapturedTwoFrames ==
    /\ jlast.op = "int_guard_value"
    /\ IsBox(jlast.args[1])
    /\ Len(framestack) = 2
    /\ history # <<>>
    /\ history[Len(history)].opnum = "GUARD_VALUE"
    /\ Len(history[Len(history)].descr.frames) = 2
    /\ history[Len(history)].descr.frames[1].jitcode = "main"
    /\ history[Len(history)].descr.frames[2].pc = jlast.orgpc
    /\ TopFrame(MI).pc = jlast.orgpc + 2

\* ------------------------------------------------------------------------
\* Branch guards: goto_if_not and the resume after its guard fails
\* ------------------------------------------------------------------------
\* the pc the plain interpreter goes to from the goto_if_not at 'position'
\* of 'jitcode' when the condition has the value 'switchcase': past the
\* instruction if it is true, to the label if it is false
InterpreterPath(jitcode, position, switchcase) ==
    IF switchcase # 0 THEN position + 4
    ELSE ord(JitCode(jitcode).code, position + 2)
             + 256 * ord(JitCode(jitcode).code, position + 3)

\* the guard that failed in a handle_guard_failure step
FailedGuard == compiled[jlast'.trace].operations[jlast'.guard]

\* where the goto_if_not that emitted the failed guard is: the snapshot of
\* the running frame is at the pc past it
FailedBranchPc == FailedGuard.descr.frames[Len(FailedGuard.descr.frames)].pc - 4

\* the value the condition has now, in the frame that resumes
ConditionNow ==
    TopFrame(MI)'.registers_i[
        ord(JitCode(TopFrame(MI)'.jitcode).code, FailedBranchPc + 1)].value

\* goto_if_not emits the guard of the value the condition has and takes
\* the path of that value
BranchTraced ==
    /\ history'[Len(history')].opnum =
           (IF jlast'.args[1].value # 0 THEN "GUARD_TRUE" ELSE "GUARD_FALSE")
    /\ history'[Len(history')].args = jlast'.args
    /\ TopFrame(MI)'.pc =
           (IF jlast'.args[1].value # 0 THEN jlast'.orgpc + 4
            ELSE Label(MI, jlast'.orgpc + 2))
    /\ TopFrame(MI)'.pc =
           InterpreterPath(TopFrame(MI).jitcode, jlast'.orgpc, jlast'.args[1].value)

\* the frame resumes on the other path of the goto_if_not whose guard failed
BranchResumed ==
    /\ ord(JitCode(TopFrame(MI)'.jitcode).code, FailedBranchPc) = Opcode("goto_if_not")
    /\ (FailedGuard.opnum = "GUARD_TRUE") = (FailedGuard.args[1].value # 0)
    /\ (ConditionNow # 0) = (FailedGuard.args[1].value = 0)
    /\ TopFrame(MI)'.pc =
           (IF FailedGuard.opnum = "GUARD_TRUE"
            THEN InterpreterPath(TopFrame(MI)'.jitcode, FailedBranchPc, 0)
            ELSE FailedBranchPc + 4)
    /\ TopFrame(MI)'.pc =
           InterpreterPath(TopFrame(MI)'.jitcode, FailedBranchPc, ConditionNow)

\* C20: goto_if_not on a Box emits GUARD_TRUE and falls through when the
\* condition is true, emits GUARD_FALSE and jumps to the target when it is
\* false.  The resume after a failed GUARD_TRUE goes on at the jump target,
\* after a failed GUARD_FALSE at the fall-through pc: where the plain
\* interpreter goes with the value the condition has now, which is the
\* opposite of the one that was traced.
BranchGuardSoundness ==
    [][IF jlast'.op = "goto_if_not" /\ IsBox(jlast'.args[1])
       THEN BranchTraced
       ELSE IF jlast'.op = "handle_guard_failure"
       THEN FailedGuard.opnum \in {"GUARD_TRUE", "GUARD_FALSE"} => BranchResumed
       ELSE TRUE]_vars

\* the GUARD_TRUE of the goto_if_not of f, traced with a true condition,
\* has failed: f resumes under main at the label of the branch
ResumedAtJumpTarget ==
    /\ jlast.op = "handle_guard_failure"
    /\ compiled[jlast.trace].operations[jlast.guard].opnum = "GUARD_TRUE"
    /\ Len(framestack) = 2
    /\ TopFrame(MI).jitcode = "f"
    /\ TopFrame(MI).pc = 18
    /\ TopFrame(MI).registers_i[3].value = 0
    /\ history = <<>>


\* ------------------------------------------------------------------------
\* Tracing loop(a, b, c) and calls(a, b)
\* ------------------------------------------------------------------------
\* the values of the red arguments of loop(a, b, c): 'b' counts the
\* iterations that are left
Counts == 0..MaxCount

\* compile_and_run_once on loop(a, b, c), whose first argument is green
InitLoop ==
    /\ \E limit \in TraceLimits :
           staticdata = [portal_code |-> "loop", num_green_args |-> 1,
                         result_type |-> "int", trace_limit |-> limit]
    /\ \E a \in IntValues, b \in Counts, c \in IntValues :
           initialize_state_from_start(<<ConstInt(a), BoxInt(b, 1), BoxInt(c, 2)>>)
    /\ nboxes = 2

\* compile_and_run_once on calls(a, b): the first 'greens' arguments are
\* green
InitCalls ==
    /\ \E greens \in 0..2, limit \in TraceLimits :
           staticdata = [portal_code |-> "calls", num_green_args |-> greens,
                         result_type |-> "int", trace_limit |-> limit]
    /\ \E a \in IntValues, b \in IntValues :
           initialize_state_from_start(<<wrap(a, num_green_args > 0, 1),
                                         wrap(b, num_green_args > 1, 2 - num_green_args)>>)
    /\ nboxes = 2 - num_green_args

InitTrace ==
    /\ GcStart(0, 0, 0)
    /\ InitLoop \/ InitCalls
    /\ compiled = <<>>
    /\ mode = "tracing"
    /\ jlast = JLast("none", MI, <<>>, 0)
    /\ failures = MaxFailures
    /\ VrefOff

NextTrace ==
    \/ handler_int_add
    \/ handler_int_sub
    \/ handler_int_copy
    \/ handler_int_guard_value
    \/ handler_goto_if_not
    \/ handler_goto
    \/ handler_inline_call_ir_i
    \/ handler_int_return
    \/ handler_can_enter_jit
    \/ \E ok \in SUBSET (0..Len(current_merge_points)) : handler_jit_merge_point(ok)
    \/ handler_raise
    \/ handler_catch_exception
    \/ \E t \in DOMAIN compiled, vals \in [1..2 -> Counts] :
           handle_guard_failure(t, vals)

SpecTrace == InitTrace /\ [][NextTrace]_vars


\* ------------------------------------------------------------------------
\* Loop closing at reached_can_enter_jit
\* ------------------------------------------------------------------------
\* the step is a jit_merge_point that went through reached_can_enter_jit
ReachedCanEnterJit == jlast'.op = "jit_merge_point" /\ seen_can_enter_jit

\* live_arg_boxes of the step: the green boxes and the red boxes after
\* remove_consts_and_duplicates
LiveArgBoxes == GreenArgs(jlast'.args) \o jlast'.redboxes

\* the entries of current_merge_points, as they were before the step, whose
\* green keys have the constants of the current green boxes
MatchingEntries ==
    {j \in DOMAIN current_merge_points :
        \A i \in 1..num_green_args :
            current_merge_points[j][1][i].value = jlast'.args[i].value}
MostRecentMatch == CHOOSE j \in MatchingEntries : \A k \in MatchingEntries : k <= j

\* the calls of compile_new_loop in the step
LoopAttempts == SelectSeq(jlast'.attempts, LAMBDA a : a.kind = "loop")
BridgeCompiled == \E k \in DOMAIN jlast'.attempts :
                      jlast'.attempts[k].kind = "bridge" /\ jlast'.attempts[k].ok

\* the trace when the compiler is called: the operations so far and the JUMP
\* to the live red boxes
TraceWithJump ==
    Append(IF jlast'.raised = "GenerateMergePoint" THEN Pop(history') ELSE history',
           ResOperation("JUMP", jlast'.redboxes, None, NoDescr))

\* the first loop compilation of the step starts from the most recent
\* matching entry and covers the operations since its start position
\* followed by the JUMP; its success raises GenerateMergePoint with the new
\* loop token
AttemptedFromMostRecent ==
    /\ LoopAttempts # <<>>
    /\ LoopAttempts[1].start = current_merge_points[MostRecentMatch][2]
    /\ LoopAttempts[1].inputargs = RedArgs(current_merge_points[MostRecentMatch][1])
    /\ LoopAttempts[1].operations =
           SubSeq(TraceWithJump, current_merge_points[MostRecentMatch][2] + 1,
                  Len(TraceWithJump))
    /\ IF LoopAttempts[1].ok
       THEN /\ jlast'.raised = "GenerateMergePoint"
            /\ Len(compiled') = Len(compiled) + 1
            /\ Top(compiled').operations = LoopAttempts[1].operations
            /\ Top(compiled').target = Len(compiled')
       ELSE jlast'.raised # "GenerateMergePoint" \/ Len(LoopAttempts) > 1

\* the merge point is appended and tracing goes on
MergePointAppended ==
    /\ current_merge_points' =
           Append(current_merge_points, <<LiveArgBoxes, Len(history')>>)
    /\ mode' = "tracing"

TraceWithinLimit ==
    mode = "tracing" => Len(history) <= staticdata.trace_limit


\* ------------------------------------------------------------------------
\* Blackhole mode
\* ------------------------------------------------------------------------
\* the last step has invoked switch_to_blackhole
SwitchedToBlackhole == jlast.switched # "none"

\* C23: after the meta-interpreter has switched to blackhole mode,
\* interpretation goes on instruction by instruction until the current
\* activation finishes: the step that invokes switch_to_blackhole ends
\* without an error, with the meta-interpreter still running its frames
\* (and nothing is appended to a trace from then on).
BlackholeContinues ==
    SwitchedToBlackhole => mode # "crashed" /\ framestack # <<>>

\* ------------------------------------------------------------------------
\* perform_call
\* ------------------------------------------------------------------------
\* the frame whose instructions run_one_step executes is framestack[-1]
OnlyTopFrameRuns == mode = "tracing" => running = Len(framestack)

\* a step that executes an inline_call instruction
PerformCallStep == AtOpcode("inline_call_ir_i") /\ jlast'.op = "inline_call_ir_i"

\* the operands of the call are in the banks of the new frame, from index 0
\* on, in the order of the arguments
OperandsInstalled(frame, argboxes) ==
    /\ \A k \in DOMAIN OfType(argboxes, INT) :
           frame.registers_i[k - 1] = OfType(argboxes, INT)[k]
    /\ \A k \in DOMAIN OfType(argboxes, REF) :
           frame.registers_r[k - 1] = OfType(argboxes, REF)[k]

\* C24: perform_call pushes exactly one new frame, with pc 0 and the
\* operands in argument order in the register bank of their type from index
\* 0 on, and raises ChangeFrame; the step loop never executes an instruction
\* of a frame that is not the top of the framestack.
PerformCall ==
    /\ []OnlyTopFrameRuns
    /\ [][PerformCallStep =>
            /\ Len(framestack') = Len(framestack) + 1
            /\ \A k \in 1..(Len(framestack) - 1) : framestack'[k] = framestack[k]
            /\ framestack'[Len(framestack)].registers_i =
                   framestack[Len(framestack)].registers_i
            /\ framestack'[Len(framestack)].registers_r =
                   framestack[Len(framestack)].registers_r
            /\ framestack'[Len(framestack')].pc = 0
            /\ framestack'[Len(framestack')].jitcode \in {"f", "g", "h"}
            /\ OperandsInstalled(framestack'[Len(framestack')], jlast'.args)
            /\ jlast'.raised = "ChangeFrame"]_vars

\* calls has just called g with an integer Box and the prebuilt exception:
\* g is on top of calls, at pc 0, with one operand in each bank
CalledWithBothBanks ==
    /\ mode = "tracing"
    /\ jlast.op = "inline_call_ir_i"
    /\ Len(framestack) = 2
    /\ framestack[2].jitcode = "g"
    /\ framestack[2].pc = 0
    /\ Len(jlast.args) = 2
    /\ ~IsConst(jlast.args[1])
    /\ framestack[2].registers_i[0] = jlast.args[1]
    /\ framestack[2].registers_r[0] = jlast.args[2]
    /\ jlast.args[2].type = REF

\* ------------------------------------------------------------------------
\* finishframe
\* ------------------------------------------------------------------------
\* a step that executes an int_return instruction
FinishFrameStep == AtOpcode("int_return") /\ jlast'.op = "int_return"

\* the framestack without its top frame, the result being in the register
\* of the caller that the byte before the pc of the caller names
ReturnedToCaller(resultbox) ==
    LET caller == framestack[Len(framestack) - 1]
    IN framestack' =
           [Pop(framestack) EXCEPT ![Len(framestack) - 1] =
               IF resultbox.type = INT
               THEN [caller EXCEPT !.registers_i[
                         ord(JitCode(caller.jitcode).code, caller.pc - 1)] = resultbox]
               ELSE [caller EXCEPT !.registers_r[
                         ord(JitCode(caller.jitcode).code, caller.pc - 1)] = resultbox]]

\* the signal of the result type of the portal
DoneWithThisFrameSignal ==
    CASE staticdata.result_type = "void" -> "DoneWithThisFrameVoid"
      [] staticdata.result_type = "int" -> "DoneWithThisFrameInt"
      [] OTHER -> "DoneWithThisFrameRef"

\* C25: finishframe(resultbox) pops exactly one frame; if frames remain the
\* result is stored in the register of the caller, in the bank of the type
\* of the result, at the index given by the byte just before the pc of the
\* caller, and ChangeFrame is raised; if no frame remains the
\* DoneWithThisFrame signal of the result type of the portal is raised with
\* the value of the result.
FinishFrame ==
    [][FinishFrameStep =>
          IF Len(framestack) > 1
          THEN /\ ReturnedToCaller(jlast'.args[1])
               /\ jlast'.raised = "ChangeFrame"
          ELSE /\ framestack' = <<>>
               /\ jlast'.raised = DoneWithThisFrameSignal
               /\ jlast'.exitvalue = jlast'.args[1].value
               /\ mode' = "done"]_vars

\* f has just returned a Box to calls: only the frame of calls is left and
\* its register 2, named by the last byte of the inline_call, holds the Box
ReturnedBoxToCaller ==
    /\ mode = "tracing"
    /\ jlast.op = "int_return"
    /\ jlast.raised = "ChangeFrame"
    /\ ~IsConst(jlast.args[1])
    /\ Len(framestack) = 1
    /\ framestack[1].jitcode = "calls"
    /\ framestack[1].pc = 8
    /\ framestack[1].registers_i[2] = jlast.args[1]
    /\ free_frames_list # <<>>

\* ------------------------------------------------------------------------
\* frame recycling
\* ------------------------------------------------------------------------
\* the reference registers 0 .. num_regs_r-1 of the frame are None
Cleaned(frame) ==
    \A k \in 0..(JitCode(frame.jitcode).num_regs_r - 1) : frame.registers_r[k] = None

\* no frame object is twice on the framestack, or on the framestack and on
\* free_frames_list
NoFrameTwice ==
    /\ \A i, k \in DOMAIN framestack :
           i # k => framestack[i].fid # framestack[k].fid
    /\ \A i \in DOMAIN framestack : \A k \in DOMAIN free_frames_list :
           framestack[i].fid # free_frames_list[k].fid

\* the frames a step has popped are the new end of free_frames_list, in
\* the order of the pops, each one cleaned
PoppedFramesFreed ==
    /\ Len(framestack') < Len(framestack)
    /\ Len(free_frames_list') =
           Len(free_frames_list) + Len(framestack) - Len(framestack')
    /\ SubSeq(free_frames_list', 1, Len(free_frames_list)) = free_frames_list
    /\ \A k \in 1..(Len(framestack) - Len(framestack')) :
           /\ free_frames_list'[Len(free_frames_list) + k].fid =
                  framestack[Len(framestack) + 1 - k].fid
           /\ free_frames_list'[Len(free_frames_list) + k].jitcode =
                  framestack[Len(framestack) + 1 - k].jitcode
           /\ Cleaned(free_frames_list'[Len(free_frames_list) + k])

\* newframe takes the last frame of free_frames_list if there is one, and a
\* new frame object otherwise
NewFrameReused ==
    IF free_frames_list # <<>>
    THEN /\ framestack'[Len(framestack')].fid = Top(free_frames_list).fid
         /\ free_frames_list' = Pop(free_frames_list)
    ELSE /\ \A k \in DOMAIN framestack :
                framestack'[Len(framestack')].fid # framestack[k].fid
         /\ free_frames_list' = <<>>

\* C26: every popped frame is put on free_frames_list with its reference
\* registers 0 .. num_regs_r-1 set to None, newframe reuses a frame of
\* free_frames_list whenever the list is not empty, and no frame is at the
\* same time on the framestack and on free_frames_list, or twice on the
\* framestack.
FrameRecycling ==
    /\ [](NoFrameTwice /\ \A k \in DOMAIN free_frames_list :
                              Cleaned(free_frames_list[k]))
    /\ [][/\ AtOpcode("int_return") \/ AtOpcode("raise") => PoppedFramesFreed
          /\ AtOpcode("inline_call_ir_i") => NewFrameReused]_vars

\* g has just been called in the frame object that f ran in before, and it
\* holds a reference in a register that popframe will clear
CalledInRecycledFrame ==
    /\ mode = "tracing"
    /\ jlast.op = "inline_call_ir_i"
    /\ Len(framestack) = 2
    /\ framestack[2].jitcode = "g"
    /\ framestack[2].fid = 2
    /\ nframes = 2
    /\ free_frames_list = <<>>
    /\ framestack[2].registers_r[0] # None

\* ------------------------------------------------------------------------
\* promotion
\* ------------------------------------------------------------------------
\* a step that executes int_guard_value on a Box
PromotionStep ==
    /\ AtOpcode("int_guard_value")
    /\ ~IsConst(RegI(MI, OrgPc + 1))
    /\ jlast'.op = "int_guard_value"

\* the framestack when implement_guard_value calls replace_box
FramesAtReplaceBox ==
    generate_guard(Decoded(MI, OrgPc + 2, "v"), "GUARD_VALUE", RegI(MI, OrgPc + 1),
                   <<constbox(RegI(MI, OrgPc + 1))>>, OrgPc).framestack

\* what replace_box has done to one bank of registers
BankReplaced(before, after, oldbox) ==
    \A k \in RegisterIndexes :
        /\ after[k] # oldbox
        /\ before[k] # oldbox => after[k] = before[k]

\* C27: after implement_guard_value promotes a Box and replace_box(old, new)
\* runs, no register of any bank of any frame on the framestack is identical
\* to the old box, and every entry that was not identical to the old box is
\* unchanged (the model has no virtualizable and no virtual refs, and no
\* float registers).
PromotionReplacesBox ==
    [][PromotionStep =>
          \A k \in DOMAIN framestack' :
              /\ BankReplaced(FramesAtReplaceBox[k].registers_i,
                              framestack'[k].registers_i, jlast'.args[1])
              /\ BankReplaced(FramesAtReplaceBox[k].registers_r,
                              framestack'[k].registers_r, jlast'.args[1])]_vars

\* ------------------------------------------------------------------------
\* remove_consts_and_duplicates
\* ------------------------------------------------------------------------
\* a jit_merge_point step that calls reached_can_enter_jit
LoopClosingPointStep ==
    /\ AtOpcode("jit_merge_point")
    /\ seen_can_enter_jit
    /\ jlast'.op = "jit_merge_point"

\* position i of the red boxes holds a Const or a box of an earlier position
ToBeReplaced(boxes, i) ==
    IsConst(boxes[i]) \/ \E k \in 1..(i - 1) : boxes[k] = boxes[i]

\* the SAME_AS operations among the operations the step has recorded
RecordedSameAs ==
    SelectSeq(SubSeq(history', Len(history) + 1, Len(history')),
              LAMBDA op : op.opnum = "SAME_AS")

\* the red boxes 'new' are the red boxes 'old' after
\* remove_consts_and_duplicates
RedBoxesCleaned(old, new) ==
    /\ Len(new) = Len(old)
    /\ \A i \in DOMAIN new : ~IsConst(new[i])
    /\ \A i, k \in DOMAIN new : i # k => new[i] # new[k]
    /\ \A i \in DOMAIN old :
           IF ToBeReplaced(old, i)
           THEN /\ new[i].id > nboxes
                /\ new[i].type = old[i].type
                /\ new[i].value = old[i].value
                /\ \E k \in DOMAIN RecordedSameAs :
                       /\ RecordedSameAs[k].args = <<old[i]>>
                       /\ RecordedSameAs[k].result = new[i]
           ELSE new[i] = old[i]
    /\ Len(RecordedSameAs) = Cardinality({i \in DOMAIN old : ToBeReplaced(old, i)})

\* C28: at a loop-closing point, after remove_consts_and_duplicates the red
\* live boxes are pairwise distinct Boxes, none of them a Const: every red
\* position that held a Const or a box of an earlier position holds a fresh
\* clone, with exactly one SAME_AS(old) -> clone recorded per replaced
\* position, and every other position is unchanged.
RedBoxesDistinct ==
    [][LoopClosingPointStep =>
          RedBoxesCleaned(RedArgs(jlast'.args), jlast'.redboxes)]_vars

\* loop has come to its jit_merge_point with the same Box in its two red
\* registers: the second one has been replaced by a clone
DuplicateRedBoxCloned ==
    /\ jlast.op = "jit_merge_point"
    /\ Len(jlast.redboxes) = 2
    /\ ~IsConst(RedArgs(jlast.args)[1])
    /\ RedArgs(jlast.args)[1] = RedArgs(jlast.args)[2]
    /\ jlast.redboxes[1] = RedArgs(jlast.args)[1]
    /\ jlast.redboxes[2] # RedArgs(jlast.args)[2]
    /\ \E k \in DOMAIN history :
           /\ history[k].opnum = "SAME_AS"
           /\ history[k].args = <<RedArgs(jlast.args)[2]>>
           /\ history[k].result = jlast.redboxes[2]

\* ------------------------------------------------------------------------
\* cancelled compilations
\* ------------------------------------------------------------------------
\* During a step, history.operations after the last return of compile or
\* compile_bridge: when the step ends with GenerateMergePoint the JUMP of the
\* successful attempt is the last operation and is set aside
TraceAfterAttempts ==
    IF jlast'.raised = "GenerateMergePoint" THEN Pop(history') ELSE history'

\* the attempt was cancelled and the operations it was given, without the
\* JUMP at their end, are the operations of the trace from its start on
CancelledLeavesTrace(a) ==
    /\ a.operations # <<>>
    /\ Top(a.operations).opnum = "JUMP"
    /\ SubSeq(TraceAfterAttempts, a.start + 1, Len(TraceAfterAttempts)) =
           Pop(a.operations)

\* C29: a cancelled compilation leaves the trace intact: when
\* compile_new_loop (in compile) or compile_new_bridge (in compile_bridge)
\* returns None, history.operations on return is the list before the call,
\* the temporary JUMP being removed, and tracing continues.
CancelledCompilation ==
    [][LoopClosingPointStep =>
          /\ \A k \in DOMAIN jlast'.attempts :
                 ~jlast'.attempts[k].ok => CancelledLeavesTrace(jlast'.attempts[k])
          /\ \A k \in DOMAIN TraceAfterAttempts :
                 k > Len(history) => TraceAfterAttempts[k].opnum # "JUMP"
          /\ (\A k \in DOMAIN jlast'.attempts : ~jlast'.attempts[k].ok) =>
                 /\ jlast'.raised # "GenerateMergePoint"
                 /\ jlast'.raised = "none" => mode' = "tracing"]_vars

\* at a jit_merge_point a loop was given to the compiler with a JUMP at its
\* end, the compilation was cancelled, and tracing goes on from a trace
\* without a JUMP
LoopCancelled ==
    /\ mode = "tracing"
    /\ jlast.op = "jit_merge_point"
    /\ jlast.raised = "none"
    /\ Len(jlast.attempts) = 1
    /\ jlast.attempts[1].kind = "loop"
    /\ ~jlast.attempts[1].ok
    /\ Top(jlast.attempts[1].operations).opnum = "JUMP"
    /\ \A k \in DOMAIN history : history[k].opnum # "JUMP"
    /\ Top(current_merge_points)[2] = Len(history)

\* ------------------------------------------------------------------------
\* in_recursion
\* ------------------------------------------------------------------------
\* check_recursion_invariant: the frames of the portal on the framestack
PortalFrames ==
    {k \in DOMAIN framestack : framestack[k].jitcode = staticdata.portal_code}

\* C30: after every interpretation step, over any sequence of calls, returns
\* and exception unwinding, in_recursion is the number of frames on the
\* framestack whose jitcode is the portal code, minus one.
RecursionInvariant == in_recursion = Cardinality(PortalFrames) - 1

\* the exception raised in g has been caught in the portal calls: the frame
\* of g is popped and the portal is at its handler
UnwoundToPortal ==
    /\ mode = "tracing"
    /\ jlast.op = "raise"
    /\ jlast.raised = "ChangeFrame"
    /\ Len(framestack) = 1
    /\ framestack[1].jitcode = "calls"
    /\ framestack[1].pc = 32
    /\ in_recursion = 0
    /\ Len(free_frames_list) = 1

\* ------------------------------------------------------------------------
\* exception unwinding
\* ------------------------------------------------------------------------
\* a step that executes a raise instruction
RaiseStep == AtOpcode("raise") /\ jlast'.op = "raise"

\* the frames under the raising frame that are at a catch_exception
HandlerFrames ==
    {k \in 1..(Len(framestack) - 1) : AtCatchException(framestack[k])}

\* the topmost of them
HandlerFrame == CHOOSE k \in HandlerFrames : \A other \in HandlerFrames : other <= k

\* the target of the catch_exception the frame is at
HandlerTarget(frame) ==
    ord(JitCode(frame.jitcode).code, frame.pc + 1)
        + 256 * ord(JitCode(frame.jitcode).code, frame.pc + 2)

\* C31: finishframe_exception pops frames from the top of the framestack
\* until the instruction at the pc of the top frame is catch_exception, sets
\* the pc of that frame to the target of the handler and raises ChangeFrame,
\* the frames below being untouched; if no frame is at a catch_exception the
\* framestack ends empty and ExitFrameWithExceptionRef is raised with the
\* pending exception. opimpl_raise pops the raising frame first: a raise is
\* never caught by a catch_exception of the frame that raised.
ExceptionUnwinding ==
    [][RaiseStep =>
          IF HandlerFrames # {}
          THEN /\ framestack' =
                      [SubSeq(framestack, 1, HandlerFrame) EXCEPT ![HandlerFrame].pc =
                          HandlerTarget(framestack[HandlerFrame])]
               /\ jlast'.raised = "ChangeFrame"
               /\ last_exc_value_box' = jlast'.args[1]
          ELSE /\ framestack' = <<>>
               /\ jlast'.raised = "ExitFrameWithExceptionRef"
               /\ jlast'.exitvalue = jlast'.args[1].value
               /\ mode' = "done"]_vars

\* the second exception of g, raised under the handler of h, has unwound g
\* and h and is caught by the portal calls
UnwoundTwoFrames ==
    /\ mode = "tracing"
    /\ jlast.op = "raise"
    /\ jlast.raised = "ChangeFrame"
    /\ Len(framestack) = 1
    /\ framestack[1].jitcode = "calls"
    /\ framestack[1].pc = 34
    /\ Len(free_frames_list) = 2
    /\ last_exc_value_box = jlast.args[1]

\* ------------------------------------------------------------------------
\* Virtual references (virtualref.py) and their tracking by the MetaInterp
\* ------------------------------------------------------------------------
\* jitframe.TOKEN_NONE, cpu.TOKEN_TRACING_RESCALL and the force token of a
\* frame of assembler code
TOKEN_NONE == "TOKEN_NONE"
TOKEN_TRACING_RESCALL == "TOKEN_TRACING_RESCALL"
FORCE_TOKEN == "FORCE_TOKEN"

RealObjects == 1..NumObjects
VrefAddr(k) == NumObjects + k
VrefAddrs == {VrefAddr(k) : k \in DOMAIN vrefs}
CONST_NULL == ConstPtr(NULL)

\* the fields of the virtual-ref side as one record
VI == [vrefs |-> vrefs, virtualref_boxes |-> virtualref_boxes,
       history |-> history, nboxes |-> nboxes, failed |-> {},
       result |-> NULL, raised |-> "none", escapes |-> FALSE, escaped |-> {}]

\* the JIT_VIRTUAL_REF structure at an address
Vref(v, gcref) == v.vrefs[gcref - NumObjects]

\* VirtualRefInfo.virtual_ref_during_tracing
virtual_ref_during_tracing(v, real_object) ==
    [JitFail(v, real_object # NULL, "real_object")
        EXCEPT !.vrefs = Append(@, [jit_frame |-> TOKEN_NONE,
                                    forced |-> real_object,
                                    virtual |-> real_object]),
               !.result = VrefAddr(Len(v.vrefs) + 1)]

\* VirtualRefInfo.is_virtual_ref: the type pointer is jit_virtual_ref_vtable
is_virtual_ref(gcref) == gcref # NULL /\ gcref > NumObjects

\* VirtualRefInfo.tracing_before_residual_call
tracing_before_residual_call(v, gcref) ==
    IF ~is_virtual_ref(gcref) THEN v
    ELSE [JitFail(v, Vref(v, gcref).jit_frame = TOKEN_NONE,
                  "jit_frame == TOKEN_NONE")
             EXCEPT !.vrefs[gcref - NumObjects].jit_frame = TOKEN_TRACING_RESCALL]

\* a tracing_after_residual_call that leaves the marker in jit_frame
tracing_after_residual_call_marked(v, gcref) ==
    IF ~is_virtual_ref(gcref) THEN [v EXCEPT !.escapes = FALSE]
    ELSE [v EXCEPT !.escapes = (Vref(v, gcref).jit_frame = TOKEN_NONE)]

\* VirtualRefInfo.tracing_after_residual_call: 'escapes' is the result
tracing_after_residual_call(v, gcref) ==
    IF ~is_virtual_ref(gcref) THEN [v EXCEPT !.escapes = FALSE]
    ELSE IF Vref(v, gcref).jit_frame # TOKEN_NONE
         THEN [JitFail(JitFail(v, Vref(v, gcref).forced # NULL, "vref.forced"),
                       Vref(v, gcref).jit_frame = TOKEN_TRACING_RESCALL,
                       "jit_frame == TOKEN_TRACING_RESCALL")
                  EXCEPT !.vrefs[gcref - NumObjects].jit_frame = TOKEN_NONE,
                         !.escapes = FALSE]
         ELSE [JitFail(v, Vref(v, gcref).forced # NULL, "vref.forced")
                  EXCEPT !.escapes = TRUE]

\* VirtualRefInfo.continue_tracing
continue_tracing(v, gcref, real_object) ==
    IF ~is_virtual_ref(gcref) THEN v
    ELSE [JitFail(JitFail(v, real_object # NULL, "real_object"),
                  Vref(v, gcref).jit_frame # TOKEN_TRACING_RESCALL,
                  "jit_frame != TOKEN_TRACING_RESCALL")
             EXCEPT !.vrefs[gcref - NumObjects].jit_frame = TOKEN_NONE,
                    !.vrefs[gcref - NumObjects].forced = real_object]

\* compile.ResumeGuardForcedDescr.force_now: forces every virtual ref of
\* the frame of assembler code, each to the object of its resume data
RECURSIVE force_now(_, _, _)
force_now(v, token, k) ==
    IF k > Len(v.vrefs) THEN v
    ELSE IF v.vrefs[k].jit_frame = token
         THEN force_now(continue_tracing(v, VrefAddr(k), v.vrefs[k].virtual),
                        token, k + 1)
         ELSE force_now(v, token, k + 1)

\* the end of force_virtual after force_now
force_virtual_forced(v, inst) ==
    [JitFail(JitFail(v, Vref(v, inst).jit_frame = TOKEN_NONE,
                     "jit_frame == TOKEN_NONE after force_now"),
             Vref(v, inst).forced # NULL, "vref.forced after force_now")
        EXCEPT !.result = Vref(v, inst).forced]

\* a force_virtual that leaves jit_frame as it is during tracing
force_virtual_unmarked(v, inst) ==
    IF Vref(v, inst).forced = NULL /\ Vref(v, inst).jit_frame = TOKEN_NONE
    THEN [v EXCEPT !.raised = "InvalidVirtualRef"]
    ELSE [v EXCEPT !.result = Vref(v, inst).forced]

\* VirtualRefInfo.force_virtual
force_virtual(v, inst) ==
    IF Vref(v, inst).jit_frame # TOKEN_NONE
    THEN IF Vref(v, inst).jit_frame = TOKEN_TRACING_RESCALL
         THEN [JitFail(v, Vref(v, inst).forced # NULL, "vref.forced")
                  EXCEPT !.vrefs[inst - NumObjects].jit_frame = TOKEN_NONE,
                         !.result = Vref(v, inst).forced]
         ELSE force_virtual_forced(
                  force_now(JitFail(v, Vref(v, inst).forced = NULL,
                                    "not vref.forced"),
                            Vref(v, inst).jit_frame, 1), inst)
    ELSE IF Vref(v, inst).forced = NULL
         THEN [v EXCEPT !.raised = "InvalidVirtualRef"]
         ELSE [v EXCEPT !.result = Vref(v, inst).forced]

\* MetaInterp.vable_and_vrefs_before_residual_call: the loop over the vref
\* boxes (is_blackholing() is False and there is no virtualizable)
RECURSIVE vable_and_vrefs_before_residual_call(_, _)
vable_and_vrefs_before_residual_call(v, i) ==
    IF i > Len(v.virtualref_boxes) THEN v
    ELSE vable_and_vrefs_before_residual_call(
             tracing_before_residual_call(v, v.virtualref_boxes[i].value), i + 2)

\* MetaInterp.stop_tracking_virtualref: 'i' is the place of the virtual box
stop_tracking_virtualref(v, i) ==
    [JitFail(v, v.history[Len(v.history)].opnum = "CALL_MAY_FORCE",
             "call_may_force_op.opnum == rop.CALL_MAY_FORCE")
        EXCEPT !.history =
                   SubSeq(@, 1, Len(@) - 1)
                       \o <<ResOperation("VIRTUAL_REF_FINISH",
                                         <<v.virtualref_boxes[i + 1],
                                           v.virtualref_boxes[i]>>, None, NoDescr),
                            @[Len(@)]>>,
               !.virtualref_boxes[i + 1] = CONST_NULL]

\* one round of the loop of vable_and_vrefs_after_residual_call
after_residual_call_vref(v, i) ==
    IF tracing_after_residual_call(v, v.virtualref_boxes[i + 1].value).escapes
    THEN [stop_tracking_virtualref(
              tracing_after_residual_call(v, v.virtualref_boxes[i + 1].value), i)
             EXCEPT !.escaped = @ \cup {v.virtualref_boxes[i + 1].value}]
    ELSE tracing_after_residual_call(v, v.virtualref_boxes[i + 1].value)

\* MetaInterp.vable_and_vrefs_after_residual_call
RECURSIVE vable_and_vrefs_after_residual_call(_, _)
vable_and_vrefs_after_residual_call(v, i) ==
    IF i > Len(v.virtualref_boxes) THEN v
    ELSE vable_and_vrefs_after_residual_call(after_residual_call_vref(v, i), i + 2)

\* MIFrame.opimpl_virtual_ref (the result box goes to a register)
opimpl_virtual_ref_boxes(v, box, resbox) ==
    [record(v, "VIRTUAL_REF",
            <<box, ConstInt(Len(v.virtualref_boxes) \div 2)>>, resbox, NoDescr)
        EXCEPT !.virtualref_boxes = @ \o <<box, resbox>>,
               !.nboxes = @ + 2]
opimpl_virtual_ref(v, box) ==
    opimpl_virtual_ref_boxes(
        virtual_ref_during_tracing(v, box.value), box,
        BoxPtr(virtual_ref_during_tracing(v, box.value).result, v.nboxes + 2))

\* MIFrame.opimpl_virtual_ref_finish
opimpl_virtual_ref_finish_popped(v, box, vrefbox, lastbox) ==
    IF is_virtual_ref(vrefbox.value)
    THEN record(JitFail(v, box.value = lastbox.value, "box == lastbox"),
                "VIRTUAL_REF_FINISH", <<vrefbox, lastbox>>, None, NoDescr)
    ELSE JitFail(v, box.value = lastbox.value, "box == lastbox")
opimpl_virtual_ref_finish(v, box) ==
    opimpl_virtual_ref_finish_popped(
        [v EXCEPT !.virtualref_boxes = SubSeq(@, 1, Len(@) - 2)], box,
        v.virtualref_boxes[Len(v.virtualref_boxes)],
        v.virtualref_boxes[Len(v.virtualref_boxes) - 1])

\* what 'vlast' records of a step: the vrefs force_virtual was invoked on
\* since the last vable_and_vrefs_before_residual_call, and the object
\* force_virtual returned for each vref so far
VLast(op, v, gcref, forced, returned) ==
    [op |-> op, vref |-> gcref, result |-> v.result, raised |-> v.raised,
     failed |-> v.failed, escaped |-> v.escaped, forced |-> forced,
     returned |-> returned]

VrefCommit(v) ==
    /\ vrefs' = v.vrefs
    /\ virtualref_boxes' = v.virtualref_boxes
    /\ history' = v.history
    /\ nboxes' = v.nboxes
    /\ UNCHANGED <<gcvars, pc, cont, req, finalizing, last, allocs, stores,
                   framestack, free_frames_list, in_recursion, resumekey,
                   compiled, mode, jlast, failures, staticdata,
                   current_merge_points, seen_can_enter_jit, running, nframes,
                   last_exc_value_box>>

\* the vrefs in virtualref_boxes
TrackedVrefs ==
    {virtualref_boxes[i].value : i \in {j \in DOMAIN virtualref_boxes : j % 2 = 0}}
        \ {NULL}

\* the traced code executes virtual_ref(obj)
VirtualRef(obj) ==
    /\ ~rescall
    /\ Len(vrefs) < MaxVrefs
    /\ VrefCommit(opimpl_virtual_ref(VI, BoxPtr(obj, nboxes + 1)))
    /\ vlast' = VLast("virtual_ref", opimpl_virtual_ref(VI, BoxPtr(obj, nboxes + 1)),
                      VrefAddr(Len(vrefs) + 1), vlast.forced, vlast.returned)
    /\ UNCHANGED rescall

\* the traced code executes virtual_ref_finish on the last virtual_ref
VirtualRefFinish ==
    /\ ~rescall
    /\ virtualref_boxes # <<>>
    /\ VrefCommit(opimpl_virtual_ref_finish(
                      VI, virtualref_boxes[Len(virtualref_boxes) - 1]))
    /\ vlast' = VLast("virtual_ref_finish",
                      opimpl_virtual_ref_finish(
                          VI, virtualref_boxes[Len(virtualref_boxes) - 1]),
                      virtualref_boxes[Len(virtualref_boxes)].value,
                      vlast.forced, vlast.returned)
    /\ UNCHANGED rescall

\* MIFrame.do_residual_call up to the call of the residual function
ResidualCalls ==
    Cardinality({i \in DOMAIN history : history[i].opnum = "CALL_MAY_FORCE"})
ResidualCallEnter ==
    /\ ~rescall
    /\ ResidualCalls < MaxResidualCalls
    /\ rescall' = TRUE
    /\ VrefCommit(vable_and_vrefs_before_residual_call(VI, 2))
    /\ vlast' = VLast("vable_and_vrefs_before_residual_call",
                      vable_and_vrefs_before_residual_call(VI, 2), NULL, {},
                      vlast.returned)

\* MIFrame.do_residual_call after the residual function has returned: the
\* CALL_MAY_FORCE is recorded, then the vrefs are looked at, then the
\* GUARD_NOT_FORCED is recorded
do_residual_call_after(v) ==
    record(vable_and_vrefs_after_residual_call(
               record(v, "CALL_MAY_FORCE", <<>>, None, NoDescr), 1),
           "GUARD_NOT_FORCED", <<>>, None, NoDescr)
ResidualCallLeave ==
    /\ rescall
    /\ rescall' = FALSE
    /\ VrefCommit(do_residual_call_after(VI))
    /\ vlast' = VLast("vable_and_vrefs_after_residual_call",
                      do_residual_call_after(VI), NULL, vlast.forced,
                      vlast.returned)

\* force_virtual_if_necessary(inst) is called on a vref: by the residual
\* function while tracing, by anybody on a vref that is not tracked
ForceVirtual(inst) ==
    /\ rescall \/ inst \notin TrackedVrefs
    /\ VrefCommit(force_virtual(VI, inst))
    /\ vlast' = VLast("force_virtual", force_virtual(VI, inst), inst,
                      IF rescall THEN vlast.forced \cup {inst} ELSE vlast.forced,
                      IF force_virtual(VI, inst).raised = "none"
                      THEN [vlast.returned EXCEPT ![inst - NumObjects] =
                                force_virtual(VI, inst).result]
                      ELSE vlast.returned)
    /\ UNCHANGED rescall

\* assembler code creates a virtual ref of the virtual 'obj': jit_frame is
\* the force token of its frame and 'forced' is null
AssemblerVirtualRef(obj) ==
    /\ Len(vrefs) < MaxVrefs
    /\ vrefs' = Append(vrefs, [jit_frame |-> FORCE_TOKEN, forced |-> NULL,
                               virtual |-> obj])
    /\ vlast' = [vlast EXCEPT !.op = "assembler virtual_ref",
                              !.vref = VrefAddr(Len(vrefs) + 1),
                              !.result = NULL, !.raised = "none"]
    /\ UNCHANGED <<gcvars, pc, cont, req, finalizing, last, allocs, stores,
                   framestack, free_frames_list, history, in_recursion,
                   resumekey, compiled, nboxes, mode, jlast, failures,
                   staticdata, current_merge_points, seen_can_enter_jit,
                   running, nframes, last_exc_value_box, virtualref_boxes,
                   rescall>>

\* assembler code leaves the scope of a virtual ref that was not forced
AssemblerVirtualRefFinish(inst) ==
    /\ Vref(VI, inst).jit_frame = FORCE_TOKEN
    /\ vrefs' = [vrefs EXCEPT ![inst - NumObjects].jit_frame = TOKEN_NONE]
    /\ vlast' = [vlast EXCEPT !.op = "assembler virtual_ref_finish",
                              !.vref = inst, !.result = NULL, !.raised = "none"]
    /\ UNCHANGED <<gcvars, pc, cont, req, finalizing, last, allocs, stores,
                   framestack, free_frames_list, history, in_recursion,
                   resumekey, compiled, nboxes, mode, jlast, failures,
                   staticdata, current_merge_points, seen_can_enter_jit,
                   running, nframes, last_exc_value_box, virtualref_boxes,
                   rescall>>

InitVref ==
    /\ GcStart(0, 0, 0)
    /\ JitOff

NextVref ==
    \/ \E obj \in RealObjects : VirtualRef(obj)
    \/ VirtualRefFinish
    \/ ResidualCallEnter
    \/ ResidualCallLeave
    \/ \E inst \in VrefAddrs : ForceVirtual(inst)
    \/ \E obj \in RealObjects : AssemblerVirtualRef(obj)
    \/ \E inst \in VrefAddrs : AssemblerVirtualRefFinish(inst)

SpecVref == InitVref /\ [][NextVref]_vars

\* ------------------------------------------------------------------------
\* Escape detection of virtual refs across residual calls
\* ------------------------------------------------------------------------
\* the steps of do_residual_call before and after the residual function
BeforeResidualCallStep ==
    ~rescall /\ vlast'.op = "vable_and_vrefs_before_residual_call"
AfterResidualCallStep ==
    rescall /\ vlast'.op = "vable_and_vrefs_after_residual_call"

\* C32: for a virtual ref tracked during tracing,
\* tracing_after_residual_call returns True exactly when force_virtual was
\* invoked on it between the matching tracing_before_residual_call and
\* tracing_after_residual_call; in both cases its jit_frame is TOKEN_NONE
\* afterwards, and the assert jit_frame == TOKEN_NONE of
\* tracing_before_residual_call holds in every residual call.
EscapeDetection ==
    [][/\ AfterResidualCallStep =>
              \A inst \in TrackedVrefs :
                  /\ inst \in vlast'.escaped <=> inst \in vlast.forced
                  /\ vrefs'[inst - NumObjects].jit_frame = TOKEN_NONE
       /\ BeforeResidualCallStep =>
              /\ vlast'.failed = {}
              /\ \A inst \in TrackedVrefs :
                     vrefs[inst - NumObjects].jit_frame = TOKEN_NONE]_vars

\* a second residual call has begun with two vrefs in virtualref_boxes, of
\* which the first residual call forced one and not the other
SecondResidualCallAfterEscape ==
    /\ rescall
    /\ vlast.op = "vable_and_vrefs_before_residual_call"
    /\ ResidualCalls = 1
    /\ Len(virtualref_boxes) = 4
    /\ virtualref_boxes[2] = CONST_NULL
    /\ virtualref_boxes[4] # CONST_NULL
    /\ vrefs[virtualref_boxes[4].value - NumObjects].jit_frame = TOKEN_TRACING_RESCALL
    /\ \E k \in DOMAIN vrefs : vrefs[k] = [jit_frame |-> TOKEN_NONE,
                                           forced |-> virtualref_boxes[1].value,
                                           virtual |-> virtualref_boxes[1].value]

\* ------------------------------------------------------------------------
\* force_virtual
\* ------------------------------------------------------------------------
ForceVirtualStep(inst) == vlast'.op = "force_virtual" /\ vlast'.vref = inst

\* the vref is invalid: not forced and not in the scope of a frame
Invalid(inst) ==
    /\ vrefs[inst - NumObjects].jit_frame = TOKEN_NONE
    /\ vrefs[inst - NumObjects].forced = NULL

\* C33: force_virtual on a vref whose jit_frame is TOKEN_NONE and whose
\* forced field is null raises InvalidVirtualRef and changes no state; in
\* every other case it returns a non-null forced object and leaves jit_frame
\* equal to TOKEN_NONE; a second force_virtual on the same vref returns the
\* same object without further state change.
ForceVirtualResult ==
    [][\A inst \in VrefAddrs :
           ForceVirtualStep(inst) =>
               IF Invalid(inst)
               THEN /\ vlast'.raised = "InvalidVirtualRef"
                    /\ UNCHANGED <<vrefs, virtualref_boxes, history, rescall>>
               ELSE /\ vlast'.raised = "none"
                    /\ vlast'.failed = {}
                    /\ vlast'.result \in RealObjects
                    /\ vlast'.result = vrefs'[inst - NumObjects].forced
                    /\ vrefs'[inst - NumObjects].jit_frame = TOKEN_NONE
                    /\ vlast.returned[inst - NumObjects] # NULL =>
                           /\ vlast'.result = vlast.returned[inst - NumObjects]
                           /\ UNCHANGED <<vrefs, virtualref_boxes, history,
                                          rescall>>]_vars

\* force_virtual has returned the object of a vref of assembler code for the
\* second time, and another vref is invalid
ForcedTwice ==
    /\ vlast.op = "force_virtual"
    /\ vlast.raised = "none"
    /\ vlast.result # NULL
    /\ vlast.result = vlast.returned[vlast.vref - NumObjects]
    /\ vrefs[vlast.vref - NumObjects].jit_frame = TOKEN_NONE
    /\ \E k \in DOMAIN vrefs : vrefs[k].forced = NULL /\ vrefs[k].jit_frame = TOKEN_NONE

\* ------------------------------------------------------------------------
\* The check at the end of replace_active_box_in_frame
\* ------------------------------------------------------------------------
\* C40: the check of replace_active_box_in_frame that the replaced box is in
\* no register at or above the register count of the jitcode never fails,
\* whatever calls, returns, reuses of recycled frames and promotions come
\* before it.
ReplacedBoxNotAboveCount ==
    "oldbox in registers[count:]" \notin jlast.failed

\* ------------------------------------------------------------------------
\* writebarrier_before_copy and the flags of old objects
\* ------------------------------------------------------------------------
\* a writebarrier_before_copy without its second part
writebarrier_before_copy_young_only(g, source_addr, dest_addr) ==
    IF GCFLAG_NO_YOUNG_PTRS \notin g.mem[dest_addr].flags THEN g
    ELSE IF GCFLAG_NO_YOUNG_PTRS \notin g.mem[source_addr].flags
              \/ GCFLAG_CARDS_SET \in g.mem[source_addr].flags
         THEN [g EXCEPT !.old_objects_pointing_to_young = Append(@, dest_addr),
                        !.mem[dest_addr].flags = @ \ {GCFLAG_NO_YOUNG_PTRS}]
         ELSE g

\* a writebarrier_before_copy that looks at the flag of the source only
writebarrier_before_copy_by_flag(g, source_addr, dest_addr) ==
    IF GCFLAG_NO_YOUNG_PTRS \notin g.mem[dest_addr].flags THEN g
    ELSE IF GCFLAG_NO_YOUNG_PTRS \notin g.mem[source_addr].flags
         THEN [g EXCEPT !.old_objects_pointing_to_young = Append(@, dest_addr),
                        !.mem[dest_addr].flags =
                            @ \ {GCFLAG_NO_YOUNG_PTRS, GCFLAG_NO_HEAP_PTRS},
                        !.prebuilt_root_objects =
                            IF GCFLAG_NO_HEAP_PTRS \in g.mem[dest_addr].flags
                            THEN Append(@, dest_addr) ELSE @]
         ELSE IF GCFLAG_NO_HEAP_PTRS \in g.mem[dest_addr].flags
                   /\ GCFLAG_NO_HEAP_PTRS \notin g.mem[source_addr].flags
              THEN [g EXCEPT !.mem[dest_addr].flags = @ \ {GCFLAG_NO_HEAP_PTRS},
                             !.prebuilt_root_objects = Append(@, dest_addr)]
              ELSE g

\* the first part of writebarrier_before_copy: the source may hold a
\* nursery pointer
writebarrier_before_copy_young(g, source_addr, dest_addr) ==
    IF GCFLAG_NO_YOUNG_PTRS \notin g.mem[source_addr].flags
         \/ GCFLAG_CARDS_SET \in g.mem[source_addr].flags
    THEN [g EXCEPT !.old_objects_pointing_to_young = Append(@, dest_addr),
                   !.mem[dest_addr].flags = @ \ {GCFLAG_NO_YOUNG_PTRS}]
    ELSE g

\* the second part: the destination is a prebuilt object not yet listed
writebarrier_before_copy_heap(g, source_addr, dest_addr) ==
    IF GCFLAG_NO_HEAP_PTRS \in g.mem[dest_addr].flags
         /\ GCFLAG_NO_HEAP_PTRS \notin g.mem[source_addr].flags
    THEN [g EXCEPT !.mem[dest_addr].flags = @ \ {GCFLAG_NO_HEAP_PTRS},
                   !.prebuilt_root_objects = Append(@, dest_addr)]
    ELSE g

\* MiniMarkGC.writebarrier_before_copy (it always returns True)
writebarrier_before_copy(g, source_addr, dest_addr) ==
    IF GCFLAG_NO_YOUNG_PTRS \notin g.mem[dest_addr].flags THEN g
    ELSE writebarrier_before_copy_heap(
             writebarrier_before_copy_young(g, source_addr, dest_addr),
             source_addr, dest_addr)

\* the copy that follows: the first 'length' items of the source
copy_items(g, source_addr, dest_addr, length) ==
    [g EXCEPT !.mem[dest_addr].fields =
                  [i \in DOMAIN @ |-> IF i <= length THEN g.mem[source_addr].fields[i]
                                      ELSE @[i]]]

\* ll_arraycopy: the arrays two roots hold, the barrier in front of the copy
arraycopy(s, d) ==
    /\ pc = "run"
    /\ stores > 0
    /\ roots[s] # NULL /\ roots[d] # NULL /\ roots[s] # roots[d]
    /\ has_gcptr_in_varsize(mem[roots[s]].typeid)
    /\ has_gcptr_in_varsize(mem[roots[d]].typeid)
    /\ Commit(copy_items(writebarrier_before_copy(St, roots[s], roots[d]),
                         roots[s], roots[d],
                         Min(mem[roots[s]].length, mem[roots[d]].length)))
    /\ last' = Stored(copy_items(writebarrier_before_copy(St, roots[s], roots[d]),
                                 roots[s], roots[d],
                                 Min(mem[roots[s]].length, mem[roots[d]].length)),
                      "arraycopy", roots[d], roots[s], 0)
    /\ stores' = stores - 1
    /\ UNCHANGED <<pc, cont, req, finalizing, allocs>>

InitCopy == Start(CopyAllocs, MaxStores)

NextCopy ==
    \/ \E r \in 1..NumRoots, q \in MinorVarRequests :
           malloc_varsize_clear(r, q[1], q[2])
    \/ collect_and_reserve
    \/ \E gen \in {0, 1} : collect(gen)
    \/ \E r \in 1..NumRoots, i \in {0, 2}, src \in 0..NumRoots :
           setarrayitem(r, i, src)
    \/ \E r \in 1..NumRoots : assume_young(r)
    \/ \E r \in 1..NumRoots : loadprebuilt(r, NumPrebuilt)
    \/ \E s \in 1..NumRoots, d \in 1..NumRoots : arraycopy(s, d)

SpecCopy == InitCopy /\ [][NextCopy]_vars


CopyStep == pc = "run" /\ stores' = stores - 1 /\ last'.op = "arraycopy"

\* the source may contain a nursery pointer: it is young, lacks
\* NO_YOUNG_PTRS or has CARDS_SET
SourceMayHoldYoung ==
    \/ is_in_nursery(last'.newvalue)
    \/ GCFLAG_NO_YOUNG_PTRS \notin mem[last'.newvalue].flags
    \/ GCFLAG_CARDS_SET \in mem[last'.newvalue].flags

\* the destination is remembered as an old object that points to young ones
DestRemembered ==
    /\ GCFLAG_NO_YOUNG_PTRS \notin mem'[last'.obj].flags
    /\ ~is_in_nursery(last'.obj) =>
           Occurrences(old_objects_pointing_to_young', last'.obj) = 1

\* a prebuilt destination is a root of the major collections when the source
\* may contain heap pointers
PrebuiltDestListed ==
    (last'.obj \in PrebuiltObjects
        /\ GCFLAG_NO_HEAP_PTRS \notin mem[last'.newvalue].flags)
    => Occurrences(prebuilt_root_objects', last'.obj) = 1

\* C35, as stated: after writebarrier_before_copy(source, dest) and the copy,
\* if the source may contain a nursery pointer then dest lacks NO_YOUNG_PTRS
\* and is listed in old_objects_pointing_to_young; if dest is prebuilt and
\* the source lacks NO_HEAP_PTRS then dest is listed in prebuilt_root_objects.
CopyBarrierListsDest ==
    [][CopyStep =>
          /\ SourceMayHoldYoung =>
                 /\ GCFLAG_NO_YOUNG_PTRS \notin mem'[last'.obj].flags
                 /\ Occurrences(old_objects_pointing_to_young', last'.obj) >= 1
          /\ PrebuiltDestListed]_vars

\* C35, amended: dest is listed in old_objects_pointing_to_young when it is
\* not itself in the nursery.
CopyBarrierConservative ==
    [][CopyStep =>
          /\ SourceMayHoldYoung => DestRemembered
          /\ PrebuiltDestListed]_vars

\* an array whose only sign of a young pointer is CARDS_SET has been copied
\* into the prebuilt array, which is now in both lists
CopiedFromCardMarked ==
    /\ last.op = "arraycopy"
    /\ last.obj \in PrebuiltObjects
    /\ GCFLAG_CARDS_SET \in mem[last.newvalue].flags
    /\ GCFLAG_NO_YOUNG_PTRS \in mem[last.newvalue].flags
    /\ is_in_nursery(mem[last.obj].fields[1])
    /\ Occurrences(old_objects_pointing_to_young, last.obj) = 1
    /\ Occurrences(prebuilt_root_objects, last.obj) = 1

\* the memory reserved by id() for nursery objects that have not been moved
\* there, or have died before the move (header tid 0)
Shadows == {a \in DOMAIN mem : mem[a] = RawBlock}

NestedCollectionStep ==
    /\ finalizing # NULL
    /\ finalizer_lock_count = 1
    /\ finalizing' = finalizing
    /\ last'.log # <<>>

\* the objects still queued in run_finalizers and all they reach
QueuedReach == Reach(Range(run_finalizers))

\* what only the queue keeps alive: reachable from run_finalizers, not from
\* prebuilt_root_objects or the stack roots
OnlyQueuedReach ==
    QueuedReach
    \ Reach(Range(prebuilt_root_objects) \cup ({roots[r] : r \in 1..NumRoots} \ {NULL}))

\* C36: a collection that a finalizer triggers frees no object that is
\* queued in run_finalizers or reachable from a queued object (the queue
\* keeps its entries, the collection may append to it), and every
\* major collection, nested or not, starts with nursery_free == nursery
\* (the assertion at the entry of major_collection never fails).
ReentrantCollection ==
    [][/\ NestedCollectionStep =>
              /\ QueuedReach \cap last'.freed = {}
              /\ \A a \in QueuedReach : Survives(a)
              /\ Len(run_finalizers') >= Len(run_finalizers)
              /\ SubSeq(run_finalizers', 1, Len(run_finalizers)) = run_finalizers
       /\ "nursery not empty in major_collection()" \notin errors']_vars

\* a finalizer has run a major collection of its own while another object,
\* which alone references a third one, was still queued
NestedMajorWithQueue ==
    /\ finalizing # NULL
    /\ finalizer_lock_count = 1
    /\ last.op = "collect"
    /\ last.log = <<"minor", "major">>
    /\ last.outcome = "done"
    /\ OnlyQueuedReach \ Range(run_finalizers) # {}

\* ------------------------------------------------------------------------
\* Memory accounting of the raw-malloced objects
\* ------------------------------------------------------------------------
\* shrink_array: only an object in the nursery is resized, by writing the
\* smaller length in it; the result says so
shrink_array(g, obj, smallerlength) ==
    IF ~is_in_nursery(obj) THEN [g EXCEPT !.result = 0]
    ELSE [g EXCEPT !.mem[obj].length = smallerlength,
                   !.mem[obj].fields =
                       IF has_gcptr_in_varsize(g.mem[obj].typeid)
                       THEN SubSeq(@, 1, smallerlength) ELSE @,
                   !.result = 1]

\* rgc.ll_shrink_array on the array a root holds, where the collector can
\* do it in place
shrink(r, smallerlength) ==
    /\ pc = "run"
    /\ roots[r] # NULL
    /\ is_in_nursery(roots[r])
    /\ is_varsize(mem[roots[r]].typeid)
    /\ smallerlength < mem[roots[r]].length
    /\ ~shrink_array(St, roots[r], smallerlength).oom
    /\ Commit(shrink_array(St, roots[r], smallerlength))
    /\ last' = Stored(shrink_array(St, roots[r], smallerlength), "shrink_array",
                      roots[r], NULL, smallerlength)
    /\ UNCHANGED <<pc, cont, req, finalizing, allocs, stores>>

AccountAllocs == 3
AccountVarRequests == {<<T_A, 1>>, <<T_A, 3>>, <<T_V, 3>>}

\* what reading the entry of type id 0 as a fixed size can give
Typeid0Sizes == {0, WORD, 2 * WORD}

InitAccount ==
    \E size0 \in Typeid0Sizes : GcStartTyped(AccountAllocs, 0, 0, size0) /\ JitOff

NextAccount ==
    \/ \E r \in 1..NumRoots, t \in {T_S, T_B} : malloc_fixedsize_clear(r, t, 0)
    \/ \E r \in 1..NumRoots, q \in AccountVarRequests :
           malloc_varsize_clear(r, q[1], q[2])
    \/ collect_and_reserve
    \/ \E gen \in {0, 1} : collect(gen)
    \/ \E r \in 1..NumRoots : id(r)
    \/ \E r \in 1..NumRoots : shrink(r, 0)
    \/ \E r \in 1..NumRoots : droproot(r)

SpecAccount == InitAccount /\ [][NextAccount]_vars

\* the sum of the sizes arena_malloc was asked for, over the listed blocks
RECURSIVE AllocatedSizes(_)
AllocatedSizes(list) ==
    IF list = <<>> THEN 0
    ELSE arena_sizes[Head(list)] + AllocatedSizes(Tail(list))

\* C38, as stated: whenever no sweep is running, rawmalloced_total_size is
\* the sum of the allocated sizes (object and card-marker words) of the
\* objects listed in rawmalloced_objects, shadows with header tid 0 and
\* objects moved out of the nursery after shrink_array included.
RawmallocedTotalSizeExact ==
    rawmalloced_total_size = AllocatedSizes(rawmalloced_objects)

\* ------------------------------------------------------------------------
\* Weak references to objects that stay alive
\* ------------------------------------------------------------------------
InitWeakAlive == Start(WeakAllocs, 0)

NextWeakAlive ==
    \/ \E r \in 1..NumRoots, t \in {T_S, T_F} : malloc_fixedsize_clear(r, t, 0)
    \/ \E r \in 1..NumRoots, target \in 1..NumRoots :
           roots[target] # NULL /\ malloc_fixedsize_clear(r, T_W, target)
    \/ collect_and_reserve
    \/ \E gen \in {0, 1} : collect(gen)
    \/ finalizer_return
    \/ \E r \in 1..NumRoots : droproot(r)
    \/ \E r \in 1..NumRoots : loadprebuilt(r, 1)

SpecWeakAlive == InitWeakAlive /\ [][NextWeakAlive]_vars

\* the object at 'a' before the step is alive after it: moved out of the
\* nursery by the minor collection, or outside the nursery and not freed
AliveAfter(a) ==
    IF is_in_nursery(a)
    THEN a \in DOMAIN forw' /\ forw'[a] \in DOMAIN mem' \ last'.freed
    ELSE a \in DOMAIN mem /\ a \notin last'.freed

\* the weak references with a referent that the step leaves alive together
\* with their referent
WeakRefsToAlive ==
    {w \in WeakRefs : /\ mem[w].fields[1] # NULL
                      /\ AliveAfter(w)
                      /\ AliveAfter(mem[w].fields[1])}

\* C39, as stated: a major collection leaves the referent of every
\* surviving weak reference whose target is alive afterwards (reachable
\* from the roots, prebuilt with NO_HEAP_PTRS, or kept for finalization)
\* as it is, and keeps the weak reference in old_objects_with_weakrefs.
WeakrefToAliveKept ==
    [][MajorCollectionStep =>
         \A w \in WeakRefsToAlive :
             /\ mem'[NewAddr(w)].fields[1] = NewAddr(mem[w].fields[1])
             /\ NewAddr(w) \in Range(old_objects_with_weakrefs')]_vars

====
